---- MODULE Spec2Model ----
(***************************************************************************)
(* RailAdvice AI: the question-answering engine (src/src/ai_engine.py),    *)
(* its conversation memory, and the file-backed document store             *)
(* (src/src/document_manager.py).                                          *)
(*                                                                         *)
(* Text is modelled as a sequence of one-character strings, so that        *)
(* lower-casing, splitting on whitespace, substring tests and the regular  *)
(* expressions of the classifier are computed, not assumed.  Scores are    *)
(* fixed-point numbers in hundredths (1.0 is 100).                         *)
(***************************************************************************)
EXTENDS Integers, Sequences, FiniteSets, TLC

(***************************************************************************)
(* Strings                                                                 *)
(***************************************************************************)

\* The regular-expression element \s* (zero or more whitespace characters).
WS == "\\s*"

UpperCase ==
  << "A","B","C","D","E","F","G","H","I","J","K","L","M",
     "N","O","P","Q","R","S","T","U","V","W","X","Y","Z","Å","Ø","Æ" >>

LowerCase ==
  << "a","b","c","d","e","f","g","h","i","j","k","l","m",
     "n","o","p","q","r","s","t","u","v","w","x","y","z","å","ø","æ" >>

Digits == {"0","1","2","3","4","5","6","7","8","9"}

\* str.lower() on one character.
LowerOf ==
  [c \in {UpperCase[i] : i \in 1..Len(UpperCase)} |->
     LowerCase[CHOOSE i \in 1..Len(UpperCase) : UpperCase[i] = c]]

LowerChar(c) == IF c \in DOMAIN LowerOf THEN LowerOf[c] ELSE c

\* str.lower()
Lower(s) == [i \in 1..Len(s) |-> LowerChar(s[i])]

IsSpace(c) == c = " "

\* \w of a str pattern: letters, digits and the underscore.
WordChars ==
  {LowerCase[i] : i \in 1..Len(LowerCase)}
  \cup {UpperCase[i] : i \in 1..Len(UpperCase)} \cup Digits \cup {"_"}

IsWordChar(c) == c \in WordChars

RECURSIVE LStrip(_)
LStrip(s) == IF s # <<>> /\ IsSpace(Head(s)) THEN LStrip(Tail(s)) ELSE s

RECURSIVE RStrip(_)
RStrip(s) ==
  IF s # <<>> /\ IsSpace(s[Len(s)]) THEN RStrip(SubSeq(s, 1, Len(s) - 1)) ELSE s

\* str.strip()
Strip(s) == RStrip(LStrip(s))

\* str.split(): the whitespace-delimited tokens, in order.
RECURSIVE SplitFrom(_, _, _)
SplitFrom(s, i, cur) ==
  IF i > Len(s) THEN (IF cur = <<>> THEN <<>> ELSE <<cur>>)
  ELSE IF IsSpace(s[i])
       THEN (IF cur = <<>> THEN <<>> ELSE <<cur>>) \o SplitFrom(s, i + 1, <<>>)
       ELSE SplitFrom(s, i + 1, Append(cur, s[i]))

Split(s) == SplitFrom(s, 1, <<>>)

\* sub in s (substring test)
Contains(s, sub) ==
  \E i \in 1..(Len(s) - Len(sub) + 1) : SubSeq(s, i, i + Len(sub) - 1) = sub

StartsWith(s, p) == Len(p) <= Len(s) /\ SubSeq(s, 1, Len(p)) = p

EndsWithChar(s, c) == s # <<>> /\ s[Len(s)] = c

InSeq(x, seq) == \E i \in 1..Len(seq) : seq[i] = x

(***************************************************************************)
(* Regular expressions of the classifier: a pattern is a list of           *)
(* alternatives, each a sequence of literal characters and \s* elements,   *)
(* optionally wrapped in \b...\b or anchored ^...$.                        *)
(***************************************************************************)

\* The positions at which alternative alt, from its k-th element, can stop
\* when matched against s from position i.
RECURSIVE MatchEnds(_, _, _, _)
MatchEnds(s, i, alt, k) ==
  IF k > Len(alt) THEN {i}
  ELSE IF alt[k] = WS
       THEN MatchEnds(s, i, alt, k + 1)
            \cup (IF i <= Len(s) /\ IsSpace(s[i])
                  THEN MatchEnds(s, i + 1, alt, k) ELSE {})
       ELSE IF i <= Len(s) /\ s[i] = alt[k]
            THEN MatchEnds(s, i + 1, alt, k + 1) ELSE {}

\* \b at position p (between s[p-1] and s[p]).
WordBoundary(s, p) ==
  LET before == p > 1 /\ IsWordChar(s[p - 1])
      after  == p <= Len(s) /\ IsWordChar(s[p])
  IN  before # after

\* re.search(pattern, s)
Search(pattern, s) ==
  \E a \in 1..Len(pattern.alts) : \E i \in 1..(Len(s) + 1) :
    \E j \in MatchEnds(s, i, pattern.alts[a], 1) :
      /\ pattern.wb => (WordBoundary(s, i) /\ WordBoundary(s, j))
      /\ pattern.anchored => (i = 1 /\ j = Len(s) + 1)

\* any(re.search(p, s) for p in patterns)
AnySearch(patterns, s) == \E p \in 1..Len(patterns) : Search(patterns[p], s)

(***************************************************************************)
(* The literals of RailAdviceAI.__init__ and ContextualRailAdviceAI        *)
(***************************************************************************)

greeting_patterns ==
  << [wb |-> TRUE, anchored |-> FALSE, alts |->
       << <<"h","e","i">>,
          <<"h","i">>,
          <<"h","a","l","l","o">>,
          <<"g","o","d",WS,"m","o","r","g","e","n">>,
          <<"g","o","d",WS,"d","a","g">>,
          <<"g","o","d",WS,"k","v","e","l","d">> >>],
     [wb |-> FALSE, anchored |-> TRUE, alts |->
       << <<"h","e","y">>, <<"h","e","l","l","o">>, <<"y","o">>, <<"h","a","l","l","a">> >>],
     [wb |-> FALSE, anchored |-> FALSE, alts |->
       << <<"h","v","a",WS,"s","k","j","e","r">>,
          <<"h","v","o","r","d","a","n",WS,"h","a","r",WS,"d","u",WS,"d","e","t">>,
          <<"h","v","o","r","d","a","n",WS,"g","å","r",WS,"d","e","t">> >>] >>

identity_patterns ==
  << [wb |-> TRUE, anchored |-> FALSE, alts |->
       << <<"h","v","e","m",WS,"e","r",WS,"d","u">>,
          <<"w","h","o",WS,"a","r","e",WS,"y","o","u">>,
          <<"h","v","a",WS,"e","r",WS,"d","u">>,
          <<"w","h","a","t",WS,"a","r","e",WS,"y","o","u">> >>],
     [wb |-> TRUE, anchored |-> FALSE, alts |->
       << <<"k","a","n",WS,"d","u",WS,"p","r","e","s","e","n","t","e","r","e",WS,"d","e","g">>,
          <<"i","n","t","r","o","d","u","c","e",WS,"y","o","u","r","s","e","l","f">> >>],
     [wb |-> TRUE, anchored |-> FALSE, alts |->
       << <<"f","o","r","t","e","l","l",WS,"o","m",WS,"d","e","g",WS,"s","e","l","v">>,
          <<"t","e","l","l",WS,"m","e",WS,"a","b","o","u","t",WS,"y","o","u","r","s","e","l","f">> >>] >>

help_patterns ==
  << [wb |-> TRUE, anchored |-> FALSE, alts |->
       << <<"h","j","e","l","p">>,
          <<"h","e","l","p">>,
          <<"h","v","a",WS,"k","a","n",WS,"d","u">>,
          <<"w","h","a","t",WS,"c","a","n",WS,"y","o","u">> >>],
     [wb |-> TRUE, anchored |-> FALSE, alts |->
       << <<"k","o","m","m","a","n","d","o","e","r">>,
          <<"c","o","m","m","a","n","d","s">>,
          <<"f","u","n","k","s","j","o","n","a","l","i","t","e","t">>,
          <<"f","u","n","c","t","i","o","n","a","l","i","t","y">> >>] >>

farewell_patterns ==
  << [wb |-> TRUE, anchored |-> FALSE, alts |->
       << <<"h","a","d","e">>,
          <<"h","a"," ","d","e","t">>,
          <<"b","y","e">>,
          <<"f","a","r","v","e","l">>,
          <<"s","n","a","k","k","e","s">>,
          <<"v","i"," ","s","e","s">> >>],
     [wb |-> FALSE, anchored |-> FALSE, alts |->
       << <<"t","a","k","k"," ","f","o","r"," ","h","j","e","l","p","e","n">>,
          <<"t","a","k","k"," ","s","k","a","l"," ","d","u"," ","h","a">> >>] >>

keyword_patterns ==
  << [category |-> "kostnad", keywords |->
       << <<"k","o","s","t","n","a","d">>,
          <<"p","r","i","s">>,
          <<"b","u","d","g","e","t">>,
          <<"ø","k","o","n","o","m","i">>,
          <<"m","i","l","l","i","o","n","e","r">>,
          <<"n","o","k">>,
          <<"k","r","o","n","e","r">>,
          <<"e","s","t","i","m","a","t">>,
          <<"v","e","r","d","i">>,
          <<"i","n","v","e","s","t","e","r","i","n","g">> >>],
     [category |-> "tid", keywords |->
       << <<"t","i","d">>,
          <<"v","a","r","i","g","h","e","t">>,
          <<"å","r">>,
          <<"m","å","n","e","d","e","r">>,
          <<"t","i","d","s","p","l","a","n">>,
          <<"f","e","r","d","i","g">>,
          <<"i","m","p","l","e","m","e","n","t","e","r","i","n","g">>,
          <<"d","e","a","d","l","i","n","e">>,
          <<"f","r","e","m","d","r","i","f","t">> >>],
     [category |-> "personer", keywords |->
       << <<"l","a","r","s">>,
          <<"m","o","r","t","v","e","d","t">>,
          <<"k","o","n","s","u","l","e","n","t">>,
          <<"a","n","s","v","a","r","l","i","g">>,
          <<"p","r","o","s","j","e","k","t","l","e","d","e","r">>,
          <<"t","e","a","m">>,
          <<"a","n","s","a","t","t","e">>,
          <<"k","o","m","p","e","t","a","n","s","e">> >>],
     [category |-> "teknologi", keywords |->
       << <<"e","t","c","s">>,
          <<"r","a","m","s">>,
          <<"t","s","i">>,
          <<"s","i","g","n","a","l">>,
          <<"s","i","k","k","e","r","h","e","t">>,
          <<"i","n","f","r","a","s","t","r","u","k","t","u","r">>,
          <<"l","e","v","e","l">>,
          <<"s","y","s","t","e","m">>,
          <<"t","e","k","n","i","s","k">>,
          <<"e","r","t","m","s">> >>],
     [category |-> "prosjekt", keywords |->
       << <<"p","r","o","s","j","e","k","t">>,
          <<"o","p","p","d","r","a","g">>,
          <<"k","u","n","d","e">>,
          <<"k","o","n","t","r","a","k","t">>,
          <<"f","l","y","t","o","g","e","t">>,
          <<"f","o","r","n","e","b","u","b","a","n","e","n">>,
          <<"b","y","b","a","n","e","n">>,
          <<"j","e","r","n","b","a","n","e">> >>],
     [category |-> "bedrift", keywords |->
       << <<"r","a","i","l","a","d","v","i","c","e">>,
          <<"s","e","l","s","k","a","p">>,
          <<"f","i","r","m","a">>,
          <<"a","n","s","a","t","t","e">>,
          <<"t","j","e","n","e","s","t","e","r">>,
          <<"k","o","m","p","e","t","a","n","s","e">>,
          <<"k","o","n","s","u","l","e","n","t">> >>],
     [category |-> "erfaring", keywords |->
       << <<"e","r","f","a","r","i","n","g">>,
          <<"k","o","m","p","e","t","a","n","s","e">>,
          <<"e","k","s","p","e","r","t","i","s","e">>,
          <<"k","u","n","n","s","k","a","p">>,
          <<"s","e","r","t","i","f","i","s","e","r","i","n","g">>,
          <<"u","t","d","a","n","n","i","n","g">> >>] >>

greeting_words ==
  << <<"h","e","i">>, <<"h","i">>, <<"h","a","l","l","o">>, <<"h","e","y">>, <<"h","e","l","l","o">> >>

question_starters ==
  << <<"h","v","a">>,
     <<"h","v","e","m">>,
     <<"h","v","o","r">>,
     <<"n","å","r">>,
     <<"h","v","o","r","f","o","r">>,
     <<"h","v","o","r","d","a","n">>,
     <<"k","a","n">>,
     <<"v","i","l">>,
     <<"w","h","a","t">>,
     <<"w","h","o">>,
     <<"w","h","e","r","e">>,
     <<"w","h","e","n">>,
     <<"w","h","y">>,
     <<"h","o","w">>,
     <<"c","a","n">>,
     <<"w","i","l","l">> >>

t_empty == <<>>
t_hei == <<"h","e","i">>
t_Hei == <<"H","e","i">>
t_HI == <<"H","I">>
t_hallo == <<"h","a","l","l","o">>
t_hey == <<"h","e","y">>
t_Hello == <<"H","e","l","l","o">>
t_hei_sp == <<" ","h","e","i"," ">>
t_hvem_er_du == <<"h","v","e","m"," ","e","r"," ","d","u","?">>
t_ok == <<"o","k">>
t_hade == <<"h","a","d","e">>
t_hjelp == <<"h","j","e","l","p">>
t_hva_kan_du == <<"h","v","a"," ","k","a","n"," ","d","u">>
t_etcs == <<"e","t","c","s">>
t_hva_er_etcs == <<"H","v","a"," ","e","r"," ","E","T","C","S","?">>
t_kostnad == <<"k","o","s","t","n","a","d">>
t_hva_koster == <<"H","v","a"," ","k","o","s","t","e","r"," ","p","r","o","s","j","e","k","t","e","t","?">>
t_god_morgen == <<"g","o","d"," ","m","o","r","g","e","n">>
t_takk == <<"t","a","k","k"," ","f","o","r"," ","h","j","e","l","p","e","n">>
t_level2 == <<"H","v","a"," ","e","r"," ","E","T","C","S"," ","L","e","v","e","l"," ","2","?">>
t_signal_stmt == <<"s","i","g","n","a","l"," ","s","y","s","t","e","m">>

t_bye == <<"b","y","e">>

t_farvel == <<"f","a","r","v","e","l">>

t_snakkes == <<"s","n","a","k","k","e","s">>

t_hade_excl == <<"h","a","d","e","!">>

t_ETCS == <<"E","T","C","S">>

t_Kompetanse == <<"K","o","m","p","e","t","a","n","s","e">>

tag_ETCS == <<"E","T","C","S">>

t_hei_hvem == <<"H","e","i",","," ","h","v","e","m"," ","e","r"," ","d","u","?">>

t_hvem_hjelp == <<"h","v","e","m"," ","e","r"," ","d","u",","," ","h","j","e","l","p">>

t_ha_det_hei == <<"h","a"," ","d","e","t"," ","h","e","i">>

t_hei_hjelp == <<"h","e","i"," ","h","j","e","l","p"," ","m","e","g">>

(***************************************************************************)
(* Input classification                                                    *)
(***************************************************************************)

\* The last keyword category whose list holds word; 0 when none does.
LastCategoryOf(word) ==
  LET hits == {c \in 1..Len(keyword_patterns) :
                 InSeq(word, keyword_patterns[c].keywords)}
  IN  IF hits = {} THEN 0 ELSE CHOOSE c \in hits : \A d \in hits : c >= d

\* The first keyword category, in declared order, whose list holds word;
\* 0 when none does.
FirstCategoryOf(word) ==
  LET hits == {c \in 1..Len(keyword_patterns) :
                 InSeq(word, keyword_patterns[c].keywords)}
  IN  IF hits = {} THEN 0 ELSE CHOOSE c \in hits : \A d \in hits : c <= d

\* RailAdviceAI.classify_input_type.  A single_keyword_<category> label is
\* the record [kind |-> "single_keyword", category |-> <category>].
Label(kind) == [kind |-> kind, category |-> ""]

classify_input_type(text) ==
  LET text_lower == Strip(Lower(text))
  IN  IF Len(Split(text)) = 1
      THEN IF InSeq(text_lower, greeting_words) THEN Label("greeting")
           ELSE IF FirstCategoryOf(text_lower) # 0
                THEN [kind |-> "single_keyword",
                      category |-> keyword_patterns[FirstCategoryOf(text_lower)].category]
                ELSE Label("single_word")
      ELSE IF AnySearch(greeting_patterns, text_lower) THEN Label("greeting")
      ELSE IF AnySearch(identity_patterns, text_lower) THEN Label("identity")
      ELSE IF AnySearch(help_patterns, text_lower) THEN Label("help")
      ELSE IF \/ EndsWithChar(Strip(text), "?")
              \/ \E q \in 1..Len(question_starters) :
                   StartsWith(text_lower, question_starters[q])
           THEN Label("question")
           ELSE Label("statement")

\* The classification without the farewell patterns put in front of it.
without_farewell(text) == classify_input_type(text)

\* ContextualRailAdviceAI.classify_input_type
contextual_classify_input_type(text) ==
  IF AnySearch(farewell_patterns, Strip(Lower(text)))
  THEN Label("farewell")
  ELSE classify_input_type(text)

(***************************************************************************)
(* JSON text of a string (json.dump with ensure_ascii=False, json.load)    *)
(***************************************************************************)

Quote == "\""

Backslash == "\\"

Newline == "\n"

\* The characters json.dump writes for one character of a string.
JsonEscapeChar(c) ==
  IF c = Quote THEN <<Backslash, Quote>>
  ELSE IF c = Backslash THEN <<Backslash, Backslash>>
  ELSE IF c = Newline THEN <<Backslash, "n">>
  ELSE <<c>>

RECURSIVE JsonEscape(_)
JsonEscape(s) ==
  IF s = <<>> THEN <<>> ELSE JsonEscapeChar(Head(s)) \o JsonEscape(Tail(s))

\* json.dump of a str: the escaped characters between double quotes.
json_dump_str(s) == <<Quote>> \o JsonEscape(s) \o <<Quote>>

\* The string a run of escaped characters stands for.
RECURSIVE JsonUnescape(_)
JsonUnescape(e) ==
  IF e = <<>> THEN <<>>
  ELSE IF Head(e) = Backslash /\ Len(e) >= 2
       THEN (IF e[2] = "n" THEN <<Newline>> ELSE <<e[2]>>)
            \o JsonUnescape(SubSeq(e, 3, Len(e)))
       ELSE <<Head(e)>> \o JsonUnescape(Tail(e))

\* json.load of the text of a str.
json_load_str(j) == JsonUnescape(SubSeq(j, 2, Len(j) - 1))

(***************************************************************************)
(* EnhancedFileDocumentManager (src/src/document_manager.py)               *)
(*                                                                         *)
(* index["documents"] is an insertion-ordered dict: a sequence of entries, *)
(* each with the key it is stored under and the fields of document_data.   *)
(* A content file <id>.json is named by the id; its JSON text is kept per  *)
(* field.  The search index maps a type, a category or a tag to the list   *)
(* of document ids.                                                        *)
(***************************************************************************)

Range(seq) == {seq[i] : i \in 1..Len(seq)}

\* list.remove(x): the first occurrence is removed.
RECURSIVE RemoveFirst(_, _)
RemoveFirst(seq, x) ==
  IF seq = <<>> THEN <<>>
  ELSE IF Head(seq) = x THEN Tail(seq)
  ELSE <<Head(seq)>> \o RemoveFirst(Tail(seq), x)

\* The position of key k in an ordered dict, 0 when absent.
KeyPos(index, k) ==
  IF \E i \in 1..Len(index) : index[i].key = k
  THEN CHOOSE i \in 1..Len(index) : index[i].key = k
  ELSE 0

HasKey(index, k) == KeyPos(index, k) # 0

EmptySearchIndex ==
  [by_type |-> <<>>, by_category |-> <<>>, by_tags |-> <<>>]

\* load_index / load_search_index when no file exists yet.
EmptyManager == [index |-> <<>>, search_index |-> EmptySearchIndex]

EmptyDisk ==
  [index_file |-> <<>>, search_index_file |-> EmptySearchIndex, content |-> <<>>]

\* One dict of the search index is a sequence of [k, ids] in insertion order.
BucketPos(buckets, k) ==
  IF \E i \in 1..Len(buckets) : buckets[i].k = k
  THEN CHOOSE i \in 1..Len(buckets) : buckets[i].k = k
  ELSE 0

\* The lists left as they are.
NoPurge(buckets, doc_id) == buckets

\* the "remove" branch of update_search_index on one dict
RECURSIVE PurgeId(_, _)
PurgeId(buckets, doc_id) ==
  IF buckets = <<>> THEN <<>>
  ELSE <<[k |-> Head(buckets).k,
          ids |-> RemoveFirst(Head(buckets).ids, doc_id)]>>
       \o PurgeId(Tail(buckets), doc_id)

\* The dict left as it is.
NoIndex(buckets, k, doc_id) == buckets

\* the "add" branch of update_search_index on one dict and one key
IndexUnder(buckets, k, doc_id) ==
  LET withKey == IF BucketPos(buckets, k) = 0
                 THEN Append(buckets, [k |-> k, ids |-> <<>>])
                 ELSE buckets
      p == BucketPos(withKey, k)
  IN  IF doc_id \in Range(withKey[p].ids) THEN withKey
      ELSE [withKey EXCEPT ![p].ids = Append(@, doc_id)]

RECURSIVE IndexUnderAll(_, _, _)
IndexUnderAll(buckets, ks, doc_id) ==
  IF ks = <<>> THEN buckets
  ELSE IndexUnderAll(IndexUnder(buckets, Head(ks), doc_id), Tail(ks), doc_id)

update_search_index(si, doc_id, doc_data, remove) ==
  IF remove
  THEN [by_type     |-> PurgeId(si.by_type, doc_id),
        by_category |-> PurgeId(si.by_category, doc_id),
        by_tags     |-> PurgeId(si.by_tags, doc_id)]
  ELSE [by_type     |-> IndexUnder(si.by_type, doc_data.type, doc_id),
        by_category |-> IndexUnder(si.by_category, doc_data.category, doc_id),
        by_tags     |-> IndexUnderAll(si.by_tags, doc_data.tags, doc_id)]

\* save_index and save_search_index: the in-memory state goes to the files.
SaveIndexes(m, d) ==
  [d EXCEPT !.index_file = m.index, !.search_index_file = m.search_index]

\* The content files are a sequence of [name, id, title, content]; a write
\* replaces the file of that name or creates it.
FilePos(files, name) ==
  IF \E i \in 1..Len(files) : files[i].name = name
  THEN CHOOSE i \in 1..Len(files) : files[i].name = name
  ELSE 0

WriteFile(files, f) ==
  IF FilePos(files, f.name) = 0 THEN Append(files, f)
  ELSE [files EXCEPT ![FilePos(files, f.name)] = f]

Unlink(files, name) ==
  IF FilePos(files, name) = 0 THEN files
  ELSE SubSeq(files, 1, FilePos(files, name) - 1)
       \o SubSeq(files, FilePos(files, name) + 1, Len(files))

add_document(m, d, doc_id, title, content, doc_type, category, tags) ==
  LET document_data ==
        [key |-> doc_id, id |-> doc_id, title |-> title, type |-> doc_type,
         category |-> category, tags |-> tags, file_path |-> doc_id]
      content_data ==
        [name |-> doc_id, id |-> doc_id, title |-> json_dump_str(title),
         content |-> json_dump_str(content)]
      m1 == [index |-> Append(m.index, document_data),
             search_index |->
               update_search_index(m.search_index, doc_id, document_data, FALSE)]
  IN  [m |-> m1,
       d |-> SaveIndexes(m1, [d EXCEPT !.content = WriteFile(@, content_data)])]

NoDocument ==
  [found |-> FALSE, key |-> "", id |-> "", title |-> <<>>, type |-> "",
   category |-> "", tags |-> <<>>, file_path |-> "", content |-> <<>>]

get_document(m, d, doc_id) ==
  IF ~HasKey(m.index, doc_id) THEN NoDocument
  ELSE LET doc_info == m.index[KeyPos(m.index, doc_id)]
           f == FilePos(d.content, doc_info.file_path)
       IN  IF f = 0 THEN NoDocument
           ELSE [found |-> TRUE, key |-> doc_info.key, id |-> doc_info.id,
                 title |-> doc_info.title, type |-> doc_info.type,
                 category |-> doc_info.category, tags |-> doc_info.tags,
                 file_path |-> doc_info.file_path,
                 content |-> json_load_str(d.content[f].content)]

remove_document(m, d, doc_id) ==
  IF ~HasKey(m.index, doc_id) THEN [m |-> m, d |-> d, ok |-> FALSE]
  ELSE LET p == KeyPos(m.index, doc_id)
           doc_info == m.index[p]
           m1 == [index |-> SubSeq(m.index, 1, p - 1)
                            \o SubSeq(m.index, p + 1, Len(m.index)),
                  search_index |->
                    update_search_index(m.search_index, doc_id, doc_info, TRUE)]
       IN  [m |-> m1,
            d |-> SaveIndexes(m1,
                    [d EXCEPT !.content = Unlink(@, doc_info.file_path)]),
            ok |-> TRUE]

\* The keyword arguments of update_document: keys is the set of names given.
NoKwargs ==
  [keys |-> {}, content |-> <<>>, id |-> "", title |-> <<>>, type |-> "",
   category |-> "", tags |-> <<>>, file_path |-> ""]

\* doc_info[key] = value for every key given other than content
Patch(doc_info, kw) ==
  [key       |-> doc_info.key,
   id        |-> IF "id" \in kw.keys THEN kw.id ELSE doc_info.id,
   title     |-> IF "title" \in kw.keys THEN kw.title ELSE doc_info.title,
   type      |-> IF "type" \in kw.keys THEN kw.type ELSE doc_info.type,
   category  |-> IF "category" \in kw.keys THEN kw.category ELSE doc_info.category,
   tags      |-> IF "tags" \in kw.keys THEN kw.tags ELSE doc_info.tags,
   file_path |-> IF "file_path" \in kw.keys THEN kw.file_path
                 ELSE doc_info.file_path]

update_document(m, d, doc_id, kw) ==
  IF ~HasKey(m.index, doc_id) THEN [m |-> m, d |-> d, ok |-> FALSE]
  ELSE LET p == KeyPos(m.index, doc_id)
           old_doc_info == m.index[p]
           f == FilePos(d.content, old_doc_info.file_path)
           files1 == IF "content" \in kw.keys /\ f # 0
                     THEN [d.content EXCEPT ![f].content = json_dump_str(kw.content)]
                     ELSE d.content
           doc_info == Patch(old_doc_info, kw)
           si1 == IF kw.keys \cap {"type", "category", "tags"} # {}
                  THEN update_search_index(
                         update_search_index(m.search_index, doc_id, old_doc_info, TRUE),
                         doc_id, doc_info, FALSE)
                  ELSE m.search_index
           m1 == [index |-> [m.index EXCEPT ![p] = doc_info], search_index |-> si1]
       IN  [m |-> m1, d |-> SaveIndexes(m1, [d EXCEPT !.content = files1]),
            ok |-> TRUE]

\* load_all_documents: every indexed document whose content can be read.
RECURSIVE LoadFrom(_, _, _)
LoadFrom(m, d, i) ==
  IF i > Len(m.index) THEN <<>>
  ELSE LET doc == get_document(m, d, m.index[i].key)
       IN  (IF doc.found THEN <<doc>> ELSE <<>>) \o LoadFrom(m, d, i + 1)

load_all_documents(m, d) == LoadFrom(m, d, 1)

\* The ids a dict of the search index has under key k, none if k is no key
IdsUnder(buckets, k) ==
  IF BucketPos(buckets, k) = 0 THEN {}
  ELSE Range(buckets[BucketPos(buckets, k)].ids)

\* search_documents without a query text: the keys of the documents
\* returned.  An absent doc_type or category is "", absent tags are <<>>.
\* The documents come in the order of created_at, which the keys do not
\* tell.
search_documents(m, d, doc_type, category, tags) ==
  LET all_ids == {m.index[i].key : i \in 1..Len(m.index)}
      typed == IF doc_type # "" /\ BucketPos(m.search_index.by_type, doc_type) # 0
               THEN all_ids \cap IdsUnder(m.search_index.by_type, doc_type)
               ELSE all_ids
      filed == IF /\ category # ""
                  /\ BucketPos(m.search_index.by_category, category) # 0
               THEN typed \cap IdsUnder(m.search_index.by_category, category)
               ELSE typed
      tag_ids == UNION {IdsUnder(m.search_index.by_tags, tags[i]) :
                          i \in 1..Len(tags)}
      candidate_ids == IF tags # <<>> THEN filed \cap tag_ids ELSE filed
  IN  {doc_id \in candidate_ids : get_document(m, d, doc_id).found}
(***************************************************************************)
(* RailAdviceAI: heavy components, knowledge base, reload                  *)
(*                                                                         *)
(* ai is the engine object; loader holds LazyLoader's module globals;      *)
(* chroma is the persistent collection "railadvice" ([exists, gen,         *)
(* entries]); ai.collection is 0 for None and otherwise the generation of  *)
(* the collection the handle was obtained for.  env names what the         *)
(* environment does during one call: the components that fail and the      *)
(* documents whose embedding or indexing fails.                            *)
(***************************************************************************)

\* env.failing holds <<"fail", component>> for a component that fails during
\* the call, <<"embed", id>> for a document whose embedding fails and
\* <<"add", id>> for one the collection does not take.
Fails(env, component) == <<"fail", component>> \in env.failing

EmbedFails(env, doc_id) == <<"embed", doc_id>> \in env.failing

AddFails(env, doc_id) == <<"add", doc_id>> \in env.failing

NoDocManager == [loaded |-> FALSE, m |-> EmptyManager]

\* RailAdviceAI.__init__ before initialize_heavy_components
NewEngine(variant, lazy) ==
  [alive |-> TRUE, variant |-> variant, lazy_init |-> lazy,
   initialized |-> FALSE, documents_text |-> <<>>, documents_metadata |-> <<>>,
   collection |-> 0, doc_manager |-> NoDocManager, embedder |-> FALSE,
   nlp |-> FALSE]

NoEngine == [NewEngine("base", TRUE) EXCEPT !.alive = FALSE]

\* A collection handle works while the collection it was obtained for exists.
HandleValid(ai, chroma) ==
  ai.collection # 0 /\ chroma.exists /\ chroma.gen = ai.collection

\* Line 519 asks self.ensure_initialized(): the callers modelled here
\* (load_knowledge_base, reload_documents) run on an initialized engine,
\* where it only returns self._initialized.
add_document_to_ai(ai, chroma, text, metadata, env) ==
  IF Strip(text) = <<>> THEN [ai |-> ai, chroma |-> chroma]
  ELSE IF ai.initialized /\ ai.collection # 0
  THEN IF EmbedFails(env, metadata.doc_id)
       THEN [ai |-> ai, chroma |-> chroma]
       ELSE LET ai1 == [ai EXCEPT !.documents_text = Append(@, text),
                                  !.documents_metadata = Append(@, metadata)]
                entry == [id |-> Len(chroma.entries) + 1, text |-> text,
                          title |-> metadata.title,
                          category |-> metadata.category,
                          doc_index |-> Len(ai1.documents_text) - 1]
            IN  IF AddFails(env, metadata.doc_id) \/ ~HandleValid(ai, chroma)
                THEN [ai |-> ai1, chroma |-> chroma]
                ELSE [ai |-> ai1,
                      chroma |-> [chroma EXCEPT !.entries = Append(@, entry)]]
  ELSE [ai |-> [ai EXCEPT !.documents_text = Append(@, text),
                          !.documents_metadata = Append(@, metadata)],
        chroma |-> chroma]

\* The loop of load_knowledge_base over all_docs from position i.
RECURSIVE LoadDocs(_, _, _, _, _)
LoadDocs(ai, chroma, all_docs, i, env) ==
  IF i > Len(all_docs) THEN [ai |-> ai, chroma |-> chroma]
  ELSE LET doc == all_docs[i]
           metadata == [type |-> doc.type, category |-> doc.category,
                        title |-> doc.title, tags |-> doc.tags,
                        doc_id |-> doc.id]
           r == IF doc.content = <<>> THEN [ai |-> ai, chroma |-> chroma]
                ELSE add_document_to_ai(ai, chroma, doc.content, metadata, env)
       IN  LoadDocs(r.ai, r.chroma, all_docs, i + 1, env)

load_knowledge_base(ai, chroma, disk, env) ==
  IF ~ai.doc_manager.loaded \/ Fails(env, "load_all")
  THEN [ai |-> ai, chroma |-> chroma]
  ELSE LET all_docs == load_all_documents(ai.doc_manager.m, disk)
       IN  IF all_docs = <<>> THEN [ai |-> ai, chroma |-> chroma]
           ELSE LoadDocs([ai EXCEPT !.documents_text = <<>>,
                                    !.documents_metadata = <<>>],
                         chroma, all_docs, 1, env)

initialize_heavy_components(ai, loader, chroma, disk, env) ==
  IF ai.initialized
  THEN [ai |-> ai, loader |-> loader, chroma |-> chroma, raised |-> FALSE]
  ELSE IF ~loader.embedder /\ Fails(env, "embedder_load")
  THEN [ai |-> ai, loader |-> loader, chroma |-> chroma, raised |-> TRUE]
  ELSE LET loader1 == [loader EXCEPT !.embedder = TRUE,
                                     !.nlp = @ \/ ~Fails(env, "nlp_load")]
           ai1 == [ai EXCEPT !.embedder = TRUE, !.nlp = loader1.nlp]
       IN  IF ~loader.chroma /\ Fails(env, "chroma_client")
           THEN [ai |-> ai1, loader |-> loader1, chroma |-> chroma, raised |-> TRUE]
           ELSE LET loader2 == [loader1 EXCEPT !.chroma = TRUE]
                IN  IF Fails(env, "collection")
                    THEN [ai |-> ai1, loader |-> loader2, chroma |-> chroma,
                          raised |-> TRUE]
                    ELSE LET chroma1 ==
                               IF chroma.exists THEN chroma
                               ELSE [exists |-> TRUE, gen |-> chroma.gen + 1,
                                     entries |-> <<>>]
                             ai2 == [ai1 EXCEPT
                                       !.collection = chroma1.gen,
                                       !.doc_manager =
                                          IF Fails(env, "doc_manager") THEN @
                                          ELSE [loaded |-> TRUE,
                                                m |-> [index |-> disk.index_file,
                                                       search_index |->
                                                         disk.search_index_file]],
                                       !.initialized = TRUE]
                         IN  load_knowledge_base(ai2, chroma1, disk, env)
                               @@ [loader |-> loader2, raised |-> FALSE]

\* ensure_initialized: initialize when needed, raising what that raises.
ensure_initialized(ai, loader, chroma, disk, env) ==
  initialize_heavy_components(ai, loader, chroma, disk, env)

\* reload_documents once ensure_initialized has returned e.
reload_ready(e, disk, env) ==
  IF e.raised THEN e
  ELSE IF Fails(env, "delete_collection") \/ ~e.chroma.exists
  THEN e
  ELSE IF Fails(env, "create_collection")
  THEN [e EXCEPT !.chroma = [@ EXCEPT !.exists = FALSE, !.entries = <<>>]]
  ELSE LET chroma1 == [exists |-> TRUE, gen |-> e.chroma.gen + 1,
                       entries |-> <<>>]
           ai1 == [e.ai EXCEPT !.collection = chroma1.gen,
                               !.documents_text = <<>>,
                               !.documents_metadata = <<>>]
       IN  load_knowledge_base(ai1, chroma1, disk, env)
             @@ [loader |-> e.loader, raised |-> FALSE]

reload_documents(ai, loader, chroma, disk, env) ==
  reload_ready(ensure_initialized(ai, loader, chroma, disk, env), disk, env)
(***************************************************************************)
(* Keyword extraction and retrieval                                        *)
(***************************************************************************)

\* found_categories: the categories with a keyword that occurs in the text.
RECURSIVE CategoriesFrom(_, _)
CategoriesFrom(text_lower, c) ==
  IF c > Len(keyword_patterns) THEN <<>>
  ELSE (IF \E k \in 1..Len(keyword_patterns[c].keywords) :
             Contains(text_lower, keyword_patterns[c].keywords[k])
        THEN <<keyword_patterns[c].category>> ELSE <<>>)
       \o CategoriesFrom(text_lower, c + 1)

\* specific_terms, after list(set(...)): title words longer than 3 characters
\* and tags of the loaded documents that occur in the lower-cased text.
SpecificTerms(documents_metadata, text_lower) ==
  UNION {
    {w \in Range(Split(Lower(documents_metadata[i].title))) :
        Len(w) > 3 /\ Contains(text_lower, w)}
    \cup {t \in Range(documents_metadata[i].tags) :
            Contains(text_lower, Lower(t))}
    : i \in 1..Len(documents_metadata)}

\* The entities of line 563 are not part of what is returned to query;
\* query asks for the intent on an initialized engine only.
extract_keywords_and_intent(ai, text) ==
  [categories     |-> CategoriesFrom(Lower(text), 1),
   specific_terms |-> SpecificTerms(ai.documents_metadata, Lower(text)),
   length         |-> Len(Split(text))]

\* n_results of the semantic search (ai_engine.py line 614)
NResults == 10

\* Insert candidate c into a list kept in ascending distance order, after
\* the candidates that are at least as near.
RECURSIVE InsertByDistance(_, _)
InsertByDistance(sorted, c) ==
  IF sorted = <<>> THEN <<c>>
  ELSE IF Head(sorted).distance <= c.distance
       THEN <<Head(sorted)>> \o InsertByDistance(Tail(sorted), c)
       ELSE <<c>> \o sorted

RECURSIVE NearestFrom(_, _, _)
NearestFrom(entries, dist, n) ==
  IF n = 0 THEN <<>>
  ELSE InsertByDistance(
         NearestFrom(entries, dist, n - 1),
         [doc |-> entries[n].text, title |-> entries[n].title,
          category |-> entries[n].category, distance |-> dist[n]])

Take(seq, n) == SubSeq(seq, 1, IF n < Len(seq) THEN n ELSE Len(seq))

\* collection.query: the n nearest entries, nearest first; dist[i] is the
\* distance of the i-th entry from the query embedding, in hundredths.
CollectionQuery(entries, dist, n) ==
  Take(NearestFrom(entries, dist, Len(entries)), n)

\* any(word in title_lower for word in question_lower.split())
TitleMatch(question, title) ==
  \E w \in Range(Split(Lower(question))) : Contains(Lower(title), w)

TitleBonus == 40

CategoryBonus == 20

\* The adjusted score of one candidate (lines 625-638), in hundredths.
AdjustedScore(question, categories, cand) ==
  (100 - cand.distance)
  + (IF TitleMatch(question, cand.title) THEN TitleBonus ELSE 0)
  + (IF cand.category \in Range(categories) THEN CategoryBonus ELSE 0)

\* list.sort(key=score, reverse=True) is stable: an element goes after the
\* elements whose score is at least its own.
RECURSIVE InsertByScore(_, _)
InsertByScore(sorted, r) ==
  IF sorted = <<>> THEN <<r>>
  ELSE IF Head(sorted).score >= r.score
       THEN <<Head(sorted)>> \o InsertByScore(Tail(sorted), r)
       ELSE <<r>> \o sorted

\* The candidates left in the order of the semantic search.
KeepOrder(rs) == rs

RECURSIVE SortByScore(_)
SortByScore(rs) ==
  IF rs = <<>> THEN <<>>
  ELSE InsertByScore(SortByScore(SubSeq(rs, 1, Len(rs) - 1)), rs[Len(rs)])

HighThreshold == 100

MediumThreshold == 70

\* The label taken from the lowest score instead of the top one.
ConfidenceOfWorst(ranked_results) ==
  IF ranked_results = <<>> THEN "Low"
  ELSE IF ranked_results[Len(ranked_results)].score > 100 THEN "High"
  ELSE IF ranked_results[Len(ranked_results)].score > 70 THEN "Medium"
  ELSE "Low"

\* lines 649-657
ConfidenceOf(ranked_results) ==
  IF ranked_results = <<>> THEN "Low"
  ELSE IF ranked_results[1].score > HighThreshold THEN "High"
  ELSE IF ranked_results[1].score > MediumThreshold THEN "Medium"
  ELSE "Low"

\* How many documents find_best_response returns (line 646)
TopDocs == 2

\* Lines 618-659: rank the candidates of the semantic search.
RankResults(question, categories, semantic_results) ==
  LET scored == [i \in 1..Len(semantic_results) |->
                   [doc |-> semantic_results[i].doc,
                    score |-> AdjustedScore(question, categories,
                                            semantic_results[i]),
                    pos |-> i]]
      ranked_results == SortByScore(scored)
  IN  [ranked |-> ranked_results,
       docs |-> [i \in 1..Len(Take(ranked_results, TopDocs)) |->
                   ranked_results[i].doc],
       confidence |-> ConfidenceOf(ranked_results)]

\* The retrieval without the try of lines 607-663: a failure of the
\* embedder or of the collection reaches the caller.
find_best_unguarded(e, question, intent_analysis, env) ==
  LET failed == \/ e.raised
                \/ Fails(env, "encode")
                \/ Fails(env, "index_query")
                \/ ~HandleValid(e.ai, e.chroma)
      r == RankResults(question, intent_analysis.categories,
             CollectionQuery(e.chroma.entries, env.dist, NResults))
  IN  [docs |-> IF failed THEN <<>> ELSE r.docs,
       confidence |-> IF failed THEN "" ELSE r.confidence,
       raised |-> failed, touched |-> {"embedder", "index"},
       st |-> [ai |-> e.ai, loader |-> e.loader, chroma |-> e.chroma]]

\* find_best_response once ensure_initialized has returned e.
find_best_ready(e, question, intent_analysis, env) ==
  LET st == [ai |-> e.ai, loader |-> e.loader, chroma |-> e.chroma]
  IN  IF e.raised
      THEN [docs |-> <<>>, confidence |-> "", raised |-> TRUE,
            touched |-> {}, st |-> st]
      ELSE IF Fails(env, "encode")
      THEN [docs |-> <<>>, confidence |-> "Error", raised |-> FALSE,
            touched |-> {"embedder"}, st |-> st]
      ELSE IF Fails(env, "index_query") \/ ~HandleValid(e.ai, e.chroma)
      THEN [docs |-> <<>>, confidence |-> "Error", raised |-> FALSE,
            touched |-> {"embedder", "index"}, st |-> st]
      ELSE LET r == RankResults(question, intent_analysis.categories,
                      CollectionQuery(e.chroma.entries, env.dist, NResults))
           IN  [docs |-> r.docs, confidence |-> r.confidence,
                raised |-> FALSE, touched |-> {"embedder", "index"},
                st |-> st]

\* find_best_response: the documents, the confidence label, whether the call
\* raised, the components it used and the engine after it.
find_best_response(ai, loader, chroma, disk, question, intent_analysis, env) ==
  IF ai.documents_text = <<>>
  THEN [docs |-> <<>>, confidence |-> "No Documents", raised |-> FALSE,
        touched |-> {},
        st |-> [ai |-> ai, loader |-> loader, chroma |-> chroma]]
  ELSE find_best_ready(ensure_initialized(ai, loader, chroma, disk, env),
                       question, intent_analysis, env)

\* RailAdviceAI.extract_keywords_and_intent as a call on the engine: line
\* 563 asks self.ensure_initialized(), which initializes an engine that is
\* not initialized and raises what that raises; the analysis is then made
\* of the text and of the metadata the engine has by then.
extract_on_engine(ai, loader, chroma, disk, text, env) ==
  LET e == ensure_initialized(ai, loader, chroma, disk, env)
  IN  [analysis |-> IF e.raised THEN extract_keywords_and_intent(ai, <<>>)
                    ELSE extract_keywords_and_intent(e.ai, text),
       raised |-> e.raised,
       st |-> [ai |-> e.ai, loader |-> e.loader, chroma |-> e.chroma]]

\* specific_terms as the loops of lines 577-589 build it, before
\* list(set(...)): per document the title words, then the tags.
RECURSIVE TermsList(_, _, _)
TermsList(documents_metadata, text_lower, i) ==
  IF i > Len(documents_metadata) THEN <<>>
  ELSE LET doc_meta == documents_metadata[i]
           LongAndThere(word) == Len(word) > 3 /\ Contains(text_lower, word)
           TagThere(tag) == Contains(text_lower, Lower(tag))
       IN  SelectSeq(Split(Lower(doc_meta.title)), LongAndThere)
           \o SelectSeq(doc_meta.tags, TagThere)
           \o TermsList(documents_metadata, text_lower, i + 1)

\* list(set(items)): the distinct items, in an order the set decides.
ListsOfSet(items) ==
  {s \in [1..Cardinality(Range(items)) -> Range(items)] :
     \A i, j \in 1..Cardinality(Range(items)) : s[i] = s[j] => i = j}
\* The labels of the two clean-up expressions, lower-cased (re.IGNORECASE),
\* each with its colon.
leading_labels ==
  << <<"p","r","o","s","j","e","k","t",":">>,
     <<"t","e","k","n","i","s","k"," ","k","u","n","n","s","k","a","p",":">>,
     <<"k","o","m","p","e","t","a","n","s","e",":">>,
     <<"m","a","r","k","e","d","s","i","n","n","s","a","t","s",":">>,
     <<"i","n","n","h","o","l","d",":">> >>

field_labels ==
  << <<"k","u","n","d","e",":">>,
     <<"t","y","p","e",":">>,
     <<"s","t","a","t","u","s",":">>,
     <<"å","r",":">>,
     <<"k","o","d","e",":">>,
     <<"k","a","t","e","g","o","r","i",":">>,
     <<"t","i","t","t","e","l",":">> >>

str_json == <<"j","s","o","n">>

str_metadata == <<"m","e","t","a","d","a","t","a">>

str_id_colon == <<"I","D",":">>

str_ellipsis == <<".",".",".">>

etcs_words == << <<"e","t","c","s">>, <<"e","r","t","m","s">> >>

cost_words == << <<"k","o","s","t","n","a","d">>, <<"p","r","i","s">>, <<"k","o","s","t">> >>

rams_words == << <<"r","a","m","s">>, <<"s","i","k","k","e","r","h","e","t">> >>
(***************************************************************************)
(* Response generation                                                     *)
(***************************************************************************)

\* The part of s from position i on.
From(s, i) == SubSeq(s, i, Len(s))

\* The first position from i on that holds no whitespace (Len(s)+1 if none).
RECURSIVE SkipSpace(_, _)
SkipSpace(s, i) ==
  IF i <= Len(s) /\ IsSpace(s[i]) THEN SkipSpace(s, i + 1) ELSE i

\* The first position from i on that holds whitespace (Len(s)+1 if none).
RECURSIVE SkipNonSpace(_, _)
SkipNonSpace(s, i) ==
  IF i <= Len(s) /\ ~IsSpace(s[i]) THEN SkipNonSpace(s, i + 1) ELSE i

\* Whether label (lower case) stands in s at position i, whatever the case.
LabelAt(label, s, i) ==
  /\ i + Len(label) - 1 <= Len(s)
  /\ \A k \in 1..Len(label) : LowerChar(s[i + k - 1]) = label[k]

AnyLabelAt(labels, s, i) == \E l \in 1..Len(labels) : LabelAt(labels[l], s, i)

\* The length of the first alternative of labels that stands at position i.
LabelLenAt(labels, s, i) ==
  Len(labels[CHOOSE l \in 1..Len(labels) :
                /\ LabelAt(labels[l], s, i)
                /\ \A k \in 1..(l - 1) : ~LabelAt(labels[k], s, i)])

\* re.sub(r'^(PROSJEKT|...):.*?\s*', '', text): a leading label goes, with
\* the whitespace after it.
DropLeadingLabel(text) ==
  IF AnyLabelAt(leading_labels, text, 1)
  THEN From(text, SkipSpace(text, 1 + LabelLenAt(leading_labels, text, 1)))
  ELSE text

\* re.sub(r'(Kunde|...):\s*[^ \n]+', '', text): every field label goes, with
\* the value that follows it.
RECURSIVE DropFieldsFrom(_, _)
DropFieldsFrom(s, i) ==
  IF i > Len(s) THEN <<>>
  ELSE IF AnyLabelAt(field_labels, s, i)
       THEN LET v == SkipSpace(s, i + LabelLenAt(field_labels, s, i))
            IN  IF v <= Len(s)
                THEN DropFieldsFrom(s, SkipNonSpace(s, v))
                ELSE <<s[i]>> \o DropFieldsFrom(s, i + 1)
       ELSE <<s[i]>> \o DropFieldsFrom(s, i + 1)

IsSentenceEnd(c) == c \in {".", "!", "?"}

\* re.split(r'(?<=[.!?])\s+', s): cut at whitespace that follows . ! or ?
RECURSIVE SplitSentences(_, _, _)
SplitSentences(s, i, cur) ==
  IF i > Len(s) THEN <<cur>>
  ELSE IF IsSpace(s[i]) /\ cur # <<>> /\ IsSentenceEnd(cur[Len(cur)])
       THEN <<cur>> \o SplitSentences(s, SkipSpace(s, i), <<>>)
       ELSE SplitSentences(s, i + 1, Append(cur, s[i]))

CountChar(s, c) == Cardinality({i \in 1..Len(s) : s[i] = c})

\* re.sub(r'\s+', ' ', s) on the positions lo..hi of s: a run of whitespace
\* becomes one space, written where the run starts (start is the first
\* position looked at).
RECURSIVE CollapseRange(_, _, _, _)
CollapseRange(s, start, lo, hi) ==
  IF lo > hi THEN <<>>
  ELSE IF lo = hi
  THEN IF ~IsSpace(s[lo]) THEN <<s[lo]>>
       ELSE IF lo = start \/ ~IsSpace(s[lo - 1]) THEN <<" ">>
       ELSE <<>>
  ELSE LET mid == (lo + hi) \div 2
       IN  CollapseRange(s, start, lo, mid) \o CollapseRange(s, start, mid + 1, hi)

CollapseSpace(s, i) == CollapseRange(s, i, i, Len(s))

MinSentenceChars == 30

MinSentenceWords == 5

\* The test of lines 339-346: the sentence looks like metadata.
LooksLikeMetadata(sentence) ==
  \/ Len(sentence) < MinSentenceChars
  \/ (sentence # <<>> /\ sentence[1] \in {"{", "[", Quote})
  \/ Contains(Lower(sentence), str_json)
  \/ Contains(Lower(sentence), str_metadata)
  \/ CountChar(sentence, Quote) > 2
  \/ Contains(sentence, str_id_colon)
  \/ Len(Split(sentence)) < MinSentenceWords

RECURSIVE GoodSentences(_, _, _, _)
GoodSentences(sentences, i, good, max_sentences) ==
  IF i > Len(sentences) \/ Len(good) >= max_sentences THEN good
  ELSE LET sentence == Strip(sentences[i])
           cleaned == Strip(CollapseSpace(sentence, 1))
       IN  GoodSentences(sentences, i + 1,
             IF LooksLikeMetadata(sentence) \/ cleaned = <<>> THEN good
             ELSE Append(good, cleaned),
             max_sentences)

extract_meaningful_content(text, max_sentences) ==
  IF text = <<>> THEN <<>>
  ELSE GoodSentences(
         SplitSentences(DropFieldsFrom(DropLeadingLabel(text), 1), 1, <<>>),
         1, <<>>, max_sentences)

\* An answer is the template that produced it and what fills the template:
\* n the document count, arg a
\* name, parts the texts inserted.
Ans(tpl, n, arg, parts) == [tpl |-> tpl, n |-> n, arg |-> arg, parts |-> parts]

\* lines 364-368
greeting_response(ai) ==
  IF Len(ai.documents_text) = 0 THEN Ans("greeting_no_documents", 0, "", <<>>)
  ELSE Ans("greeting", Len(ai.documents_text), "", <<>>)

get_identity_response(ai) ==
  IF Len(ai.documents_text) = 0 THEN Ans("identity_no_documents", 0, "", <<>>)
  ELSE Ans("identity", Len(ai.documents_text), "", <<>>)

get_help_response == Ans("help", 0, "", <<>>)

\* str.split('.')
RECURSIVE SplitOn(_, _, _, _)
SplitOn(s, c, i, cur) ==
  IF i > Len(s) THEN <<cur>>
  ELSE IF s[i] = c THEN <<cur>> \o SplitOn(s, c, i + 1, <<>>)
  ELSE SplitOn(s, c, i + 1, Append(cur, s[i]))

MaxSentenceChars == 200

\* The display names of handle_single_word; a category without one shows
\* its own name.
category_names ==
  << [category |-> "teknologi", name |-> "tekniske løsninger"],
     [category |-> "kostnad", name |-> "kostnader og økonomi"],
     [category |-> "tid", name |-> "tidsplaner og fremdrift"],
     [category |-> "personer", name |-> "personer og kompetanse"],
     [category |-> "prosjekt", name |-> "prosjekter og oppdrag"],
     [category |-> "bedrift", name |-> "RailAdvice og våre tjenester"],
     [category |-> "erfaring", name |-> "erfaring og ekspertise"] >>

CategoryName(category) ==
  IF \E i \in 1..Len(category_names) : category_names[i].category = category
  THEN category_names[CHOOSE i \in 1..Len(category_names) :
                        category_names[i].category = category].name
  ELSE category

\* handle_single_word; the result also names the components it used.
\* Line 288 asks self.ensure_initialized(): query gets here on an
\* initialized engine only, where it returns self._initialized.
handle_single_word(ai, chroma, word, word_type, env) ==
  LET word_lower == Lower(word)
      prompt == Ans("single_word_prompt", 0, "", <<word>>)
  IN  IF word_type.kind = "single_word"
      THEN IF Len(ai.documents_text) > 0 /\ ai.initialized
           THEN IF Fails(env, "single_word_encode")
                THEN [answer |-> prompt, touched |-> {"embedder"}]
                ELSE IF \/ Fails(env, "single_word_query")
                        \/ ~HandleValid(ai, chroma)
                THEN [answer |-> prompt, touched |-> {"embedder", "index"}]
                ELSE LET results == CollectionQuery(chroma.entries, env.dist, 1)
                         HasWord(s) == Contains(Lower(s), word_lower)
                         sentences ==
                           IF results = <<>> \/ results[1].doc = <<>> THEN <<>>
                           ELSE SelectSeq(SplitOn(results[1].doc, ".", 1, <<>>),
                                          HasWord)
                         first == IF sentences = <<>> THEN <<>>
                                  ELSE Strip(sentences[1])
                         best_sentence ==
                           IF Len(first) > MaxSentenceChars
                           THEN SubSeq(first, 1, MaxSentenceChars) \o str_ellipsis
                           ELSE first
                     IN  [answer |-> IF sentences # <<>>
                                     THEN Ans("single_word_found", 0, "",
                                              <<word, best_sentence>>)
                                     ELSE prompt,
                          touched |-> {"embedder", "index"}]
           ELSE [answer |-> prompt, touched |-> {}]
      ELSE [answer |-> Ans("single_keyword_prompt", 0,
                           CategoryName(word_type.category), <<>>),
            touched |-> {}]

AnyIn(words, s) == \E w \in 1..Len(words) : Contains(s, words[w])

generate_intelligent_fallback(ai, question) ==
  LET doc_count == Len(ai.documents_text)
      question_lower == Lower(question)
  IN  IF doc_count = 0 THEN Ans("fallback_no_documents", 0, "", <<>>)
      ELSE IF AnyIn(etcs_words, question_lower)
           THEN Ans("fallback_etcs", doc_count, "", <<>>)
      ELSE IF AnyIn(cost_words, question_lower)
           THEN Ans("fallback_cost", 0, "", <<>>)
      ELSE IF AnyIn(rams_words, question_lower)
           THEN Ans("fallback_rams", doc_count, "", <<>>)
      ELSE Ans("fallback_generic", doc_count, "", <<>>)

RECURSIVE MeaningfulOf(_, _)
MeaningfulOf(docs, i) ==
  IF i > Len(docs) THEN <<>>
  ELSE extract_meaningful_content(docs[i], 2) \o MeaningfulOf(docs, i + 1)

\* RailAdviceAI.generate_smart_response; raised says the call threw.  The
\* answer with high confidence opens with one of four phrases picked at
\* random, which the answer record does not tell apart.
generate_smart_response(ai, chroma, question, docs, confidence, input_type, env) ==
  LET done(a) == [answer |-> a, raised |-> FALSE, touched |-> {}]
  IN  IF input_type.kind = "greeting" THEN done(greeting_response(ai))
      ELSE IF input_type.kind = "identity" THEN done(get_identity_response(ai))
      ELSE IF input_type.kind = "help" THEN done(get_help_response)
      ELSE IF input_type.kind \in {"single_word", "single_keyword"}
      THEN LET h == handle_single_word(ai, chroma, question, input_type, env)
           IN  [answer |-> h.answer, raised |-> FALSE, touched |-> h.touched]
      ELSE IF docs = <<>> THEN done(generate_intelligent_fallback(ai, question))
      ELSE LET response_parts == MeaningfulOf(docs, 1)
           IN  IF response_parts = <<>>
               THEN done(Ans("no_clear_content", 0, "", <<>>))
               ELSE IF Fails(env, "generator")
               THEN [answer |-> Ans("", 0, "", <<>>), raised |-> TRUE,
                     touched |-> {}]
               ELSE IF confidence = "High"
               THEN done(Ans(IF Len(response_parts) > 1 THEN "high_more"
                             ELSE "high", 0, "", response_parts))
               ELSE IF confidence = "Medium"
               THEN done(Ans("medium", 0, "", response_parts))
               ELSE done(Ans("low", 0, "", Take(response_parts, 1)))

\* ContextualRailAdviceAI.generate_smart_response
contextual_generate_smart_response(ai, chroma, question, docs, confidence, input_type, env) ==
  IF input_type.kind = "farewell"
  THEN [answer |-> Ans("farewell", 0, "", <<>>), raised |-> FALSE, touched |-> {}]
  ELSE generate_smart_response(ai, chroma, question, docs, confidence,
                               input_type, env)

(***************************************************************************)
(* query                                                                   *)
(***************************************************************************)

Result(answer, sources, confidence, input_type, categories, terms, loading) ==
  [answer |-> answer, sources |-> sources, confidence |-> confidence,
   input_type |-> input_type, intent_categories |-> categories,
   specific_terms |-> terms, loading |-> loading]

\* What a call that raised leaves in place of a result.
NoResult == Result(Ans("", 0, "", <<>>), 0, "", Label(""), <<>>, {}, FALSE)

\* The label as it is, were str.title() left out.
Untitled(kind) == kind

\* str.title() of the three labels query capitalises.
Title(kind) ==
  IF kind = "greeting" THEN "Greeting"
  ELSE IF kind = "identity" THEN "Identity"
  ELSE "Help"

\* self.classify_input_type(text), dispatched on the class of the engine.
classify_for(variant, text) ==
  IF variant = "contextual" THEN contextual_classify_input_type(text)
  ELSE classify_input_type(text)

\* The test of line 720 were it true of every input, so that the branch
\* "No Documents" of query is never taken.
EveryInput(input_type) == TRUE

\* input_type in ["single_word", "single_keyword"]: a keyword label is
\* "single_keyword_<category>" and never the bare "single_keyword".
InSingleList(input_type) ==
  input_type = Label("single_word") \/ input_type = Label("single_keyword")

\* The record query returns with "Error", after the state st.
Failed(answer, input_type, st, touched) ==
  [result |-> Result(answer, 0, "Error", input_type, <<>>, {}, FALSE),
   raised |-> FALSE, st |-> st, touched |-> touched]

\* Lines 745-758: the record query returns once find_best_response has
\* returned f and generate_smart_response g.
query_answered(f, g, input_type, intent_analysis, nlp) ==
  IF f.raised
  THEN Failed(Ans("error", 0, "", <<>>), input_type, f.st, nlp \cup f.touched)
  ELSE IF g.raised
  THEN Failed(Ans("error", 0, "", <<>>), input_type, f.st,
              nlp \cup f.touched \cup g.touched)
  ELSE [result |-> Result(g.answer, Len(f.docs), f.confidence, input_type,
                          intent_analysis.categories,
                          intent_analysis.specific_terms, FALSE),
        raised |-> FALSE, st |-> f.st,
        touched |-> nlp \cup f.touched \cup g.touched]

\* self.generate_smart_response, dispatched on the class of the engine.
generate_for(f, question, input_type, env) ==
  IF f.st.ai.variant = "contextual"
  THEN contextual_generate_smart_response(f.st.ai, f.st.chroma, question,
                                          f.docs, f.confidence, input_type, env)
  ELSE generate_smart_response(f.st.ai, f.st.chroma, question, f.docs,
                               f.confidence, input_type, env)

\* Lines 731-744: the pipeline once find_best_response has returned f.
query_retrieved(f, question, input_type, intent_analysis, nlp, env) ==
  query_answered(f, generate_for(f, question, input_type, env), input_type,
                 intent_analysis, nlp)

\* Lines 705-744: query once the initialization of a non-lazy engine has
\* returned i.
query_ready(i, disk, question, input_type, env) ==
  LET ist == [ai |-> i.ai, loader |-> i.loader, chroma |-> i.chroma]
      intent_analysis == extract_keywords_and_intent(i.ai, question)
  IN  IF i.raised
      THEN Failed(Ans("initialization_failed", 0, "", <<>>), input_type, ist, {})
      ELSE IF i.ai.documents_text = <<>> /\ ~InSingleList(input_type)
      THEN [result |-> Result(Ans("no_documents", 0, "", <<>>), 0,
                              "No Documents", input_type, <<>>, {}, FALSE),
            raised |-> FALSE, st |-> ist, touched |-> {}]
      ELSE query_retrieved(
             find_best_response(i.ai, i.loader, i.chroma, disk, question,
                                intent_analysis, env),
             question, input_type, intent_analysis,
             IF i.ai.nlp THEN {"nlp"} ELSE {}, env)

\* query were lines 673-705 left out: every input is taken to the
\* documents with the engine as it is.
query_eager(ai, loader, chroma, disk, question, input_type, env) ==
  query_ready([ai |-> ai, loader |-> loader, chroma |-> chroma,
               raised |-> FALSE],
              disk, question, input_type, env)

\* Lines 673-704: query once the input is classified.
query_classified(ai, loader, chroma, disk, question, input_type, env) ==
  LET same == [ai |-> ai, loader |-> loader, chroma |-> chroma]
  IN  IF input_type \in {Label("greeting"), Label("identity"), Label("help")}
      THEN [result |-> Result(IF input_type.kind = "greeting"
                              THEN greeting_response(ai)
                              ELSE IF input_type.kind = "identity"
                                   THEN get_identity_response(ai)
                                   ELSE get_help_response,
                              0, Title(input_type.kind), input_type,
                              <<input_type.kind>>, {}, FALSE),
            raised |-> FALSE, st |-> same, touched |-> {}]
      ELSE IF ~ai.initialized /\ ai.lazy_init
      THEN [result |-> Result(Ans("loading", 0, "", <<>>), 0, "Loading",
                              input_type, <<>>, {}, TRUE),
            raised |-> FALSE, st |-> same, touched |-> {}]
      ELSE query_ready(
             initialize_heavy_components(ai, loader, chroma, disk, env),
             disk, question, input_type, env)

\* RailAdviceAI.query, with self.classify_input_type and
\* self.generate_smart_response dispatched on the variant: the result, whether
\* the call raised, the engine, loader and collection after it (st) and the
\* components it used (touched).
query(ai, loader, chroma, disk, question, env) ==
  query_classified(ai, loader, chroma, disk, question,
                   classify_for(ai.variant, question), env)

(***************************************************************************)
(* Conversation memory (ContextualRailAdviceAI)                            *)
(*                                                                         *)
(* A JSON value is [kind, items]: a list with its items, or a dict.  The   *)
(* memory file is absent, holds the text of a JSON value, or holds text    *)
(* that is not JSON ("garbage"); the user text of a stored turn is kept as *)
(* JSON text, the answer as the answer.                                    *)
(***************************************************************************)

JsonList(items) == [kind |-> "list", items |-> items]

JsonDict == [kind |-> "dict", items |-> <<>>]

NoFile == [exists |-> FALSE, kind |-> "", items |-> <<>>]

Garbage == [exists |-> TRUE, kind |-> "garbage", items |-> <<>>]

\* json.dump(value, f): the file then holds the text of value.
json_dump(value) ==
  [exists |-> TRUE, kind |-> value.kind,
   items |-> [i \in 1..Len(value.items) |->
                [user |-> json_dump_str(value.items[i].user),
                 ai |-> value.items[i].ai]]]

\* json.load(f) of a file that holds the text of a JSON value.
json_load(file) ==
  [kind |-> file.kind,
   items |-> [i \in 1..Len(file.items) |->
                [user |-> json_load_str(file.items[i].user),
                 ai |-> file.items[i].ai]]]

load_memory(file) ==
  IF file.exists
  THEN IF file.kind = "garbage" THEN JsonList(<<>>) ELSE json_load(file)
  ELSE JsonList(<<>>)

\* The cap on conversation_history (line 804)
MemoryCap == 20

\* conversation_history[:20], the slice from the wrong end
FirstN(seq, n) == SubSeq(seq, 1, n)

\* conversation_history[-20:]
LastN(seq, n) ==
  IF Len(seq) > n THEN SubSeq(seq, Len(seq) - n + 1, Len(seq)) ELSE seq

\* A save_memory that leaves the file alone
save_nothing(conversation_history, file, env) == file

\* save_memory: a failed write is swallowed; it leaves the file as it was
\* (open failed) or cut short (the dump failed), as env.damage says.
save_memory(conversation_history, file, env) ==
  IF Fails(env, "memory_write")
  THEN IF env.damage = "truncated" THEN Garbage ELSE file
  ELSE json_dump(conversation_history)

\* Lines 801-807: the log and the file once super().query has returned r;
\* raised when the append on conversation_history did (it is no list).
remember(r, conversation_history, file, question, env) ==
  LET appended == Append(conversation_history.items,
                         [user |-> question, ai |-> r.result.answer])
      history == JsonList(IF Len(appended) > MemoryCap
                          THEN LastN(appended, MemoryCap) ELSE appended)
  IN  IF r.raised \/ conversation_history.kind # "list"
      THEN [result |-> NoResult, raised |-> TRUE, st |-> r.st,
            touched |-> r.touched, history |-> conversation_history,
            file |-> file]
      ELSE [result |-> r.result, raised |-> FALSE, st |-> r.st,
            touched |-> r.touched, history |-> history,
            file |-> save_memory(history, file, env)]

\* ContextualRailAdviceAI.query
contextual_query(ai, loader, chroma, disk, conversation_history, file, question, env) ==
  remember(query(ai, loader, chroma, disk, question, env),
           conversation_history, file, question, env)
(***************************************************************************)
(* The documents, stores and memory files the engine is run against        *)
(***************************************************************************)

title_etcs == <<"E","T","C","S"," ","L","e","v","e","l"," ","2">>

content_etcs == <<"E","T","C","S"," ","L","e","v","e","l"," ","2"," ","b","r","u","k","e","r"," ","r","a","d","i","o"," ","m","e","l","l","o","m"," ","t","o","g"," ","o","g"," ","b","a","n","e",".">>

tag_etcs == <<"e","t","c","s">>

title_signal == <<"S","i","g","n","a","l","a","n","l","e","g","g">>

content_signal == <<"S","i","g","n","a","l","a","n","l","e","g","g"," ","\"","A","\""," ","s","t","y","r","e","r"," ","t","o","g","e","n","e",".">>

tag_signal == <<"s","i","g","n","a","l">>

title_blank == <<"T","o","m","t"," ","n","o","t","a","t">>

content_blank == <<" "," ">>

title_radio == <<"G","S","M","-","R"," ","r","a","d","i","o">>

content_radio == <<"G","S","M","-","R"," ","e","r"," ","r","a","d","i","o","n","e","t","t","e","t"," ","t","i","l"," ","j","e","r","n","b","a","n","e","n",".">>

content_escapes ==
  <<"C",":",Backslash,"t","o","g"," ",Quote,"A",Quote,Newline,"l","i","n","j","e"," ","2">>
\* The documents a store can hold: what add_document is called with.
Catalogue ==
  << [id |-> "d1", title |-> title_etcs, content |-> content_etcs,
      type |-> "technical", category |-> "teknologi", tags |-> <<tag_etcs>>],
     [id |-> "d2", title |-> title_signal, content |-> content_signal,
      type |-> "general", category |-> "general", tags |-> <<tag_signal>>],
     [id |-> "d3", title |-> title_blank, content |-> content_blank,
      type |-> "general", category |-> "general", tags |-> <<>>] >>

\* The document directory after add_document of the first n catalogue
\* documents by an earlier process.
RECURSIVE StoreOf(_)
StoreOf(n) ==
  IF n = 0 THEN [m |-> EmptyManager, d |-> EmptyDisk]
  ELSE LET s == StoreOf(n - 1)
           c == Catalogue[n]
       IN  add_document(s.m, s.d, c.id, c.title, c.content, c.type,
                        c.category, c.tags)

\* The collection "railadvice" a process finds: none, or the one an earlier
\* process left behind.
NoCollection == [exists |-> FALSE, gen |-> 0, entries |-> <<>>]

LeftCollection ==
  [exists |-> TRUE, gen |-> 1,
   entries |-> << [id |-> 1, text |-> content_signal, title |-> title_signal,
                   category |-> "general", doc_index |-> 0] >>]

\* The memory file a process finds: none, text that is not JSON, a JSON
\* object, or the log an earlier process saved.
LeftMemory ==
  json_dump(JsonList(<< [user |-> t_hei,
                         ai |-> Ans("greeting_no_documents", 0, "", <<>>)],
                        [user |-> content_signal,
                         ai |-> Ans("loading", 0, "", <<>>)] >>))

MemoryFiles == {NoFile, Garbage, json_dump(JsonDict), LeftMemory}

NoLoader == [embedder |-> FALSE, nlp |-> FALSE, chroma |-> FALSE]

(***************************************************************************)
(* What the environment does during one call                               *)
(***************************************************************************)

\* How many things fail during one call
MaxFaults == 1

\* Distances the collection reports, in hundredths: near and far
Distances == {20, 140}

\* The documents with content to embed
EmbeddedIds ==
  {Catalogue[i].id : i \in {j \in 1..Len(Catalogue) :
                              Strip(Catalogue[j].content) # <<>>}}

Env(failing, dist, damage) ==
  [failing |-> failing, dist |-> dist, damage |-> damage]

FaultSets(faults) == {s \in SUBSET faults : Cardinality(s) <= MaxFaults}

ComponentFaults(components) == {<<"fail", c>> : c \in components}

InitFaults ==
  ComponentFaults({"embedder_load", "nlp_load", "chroma_client", "collection",
                   "doc_manager", "load_all"})
  \cup {<<"embed", id>> : id \in EmbeddedIds}
  \cup {<<"add", id>> : id \in EmbeddedIds}

ReloadFaults ==
  InitFaults \cup ComponentFaults({"delete_collection", "create_collection"})

QueryFaults ==
  ComponentFaults({"encode", "index_query", "generator",
                   "single_word_encode", "single_word_query"})

MemoryFaults == ComponentFaults({"memory_write"})

\* A failed write leaves the file as it was or cut short.
Damages(failing) ==
  IF <<"fail", "memory_write">> \in failing THEN {"unchanged", "truncated"}
  ELSE {"unchanged"}

\* All candidates equally near
Nominal(n) == [i \in 1..n |-> 20]

NoEnv == Env({}, Nominal(0), "unchanged")

InitEnvs == {Env(f, Nominal(0), "unchanged") : f \in FaultSets(InitFaults)}

ReloadEnvs == {Env(f, Nominal(0), "unchanged") : f \in FaultSets(ReloadFaults)}

(***************************************************************************)
(* The engine as a state machine                                           *)
(*                                                                         *)
(* ai, loader, chroma, disk: the engine, the module globals of LazyLoader, *)
(* the collection and the document directory.  conversation_history and    *)
(* memory_file: the log of ContextualRailAdviceAI and its file.  last: the *)
(* last call and what it returned.  asked: the turns the engine with       *)
(* memory loaded when constructed and those it answered since.  manager,   *)
(* book: the document manager of the application and what has been added  *)
(* through it.  ranking: the last ranking of candidates.                   *)
(***************************************************************************)

VARIABLES ai, loader, chroma, disk, conversation_history, memory_file,
          last, calls, asked, manager, book, ranking, workers, app_state

vars == <<ai, loader, chroma, disk, conversation_history, memory_file,
          last, calls, asked, manager, book, ranking, workers, app_state>>

\* The questions asked
Texts ==
  {t_empty, t_hei, t_HI, t_hallo, t_hey, t_Hello, t_hvem_er_du, t_hjelp,
   t_hade, t_ok, t_etcs, t_hva_er_etcs}

\* How many reloads and how many queries one run makes
MaxCalls == 1

\* The record of a call: the operation, its input, what it returned, whether
\* it raised, the components it used, the engine before it, what failed
\* during it and, for find_best_response, the documents it returned.
NoCall ==
  [op |-> "none", question |-> <<>>, result |-> NoResult, raised |-> FALSE,
   touched |-> {}, before |-> NoEngine, failing |-> {}, docs |-> <<>>]

\* The worker threads of the application and the lock of its document
\* manager: no thread runs, nobody holds the lock.
NoWorkers == [lock |-> 0, t |-> <<>>]

\* AppState of src/src/api.py as constructed: no engine, neither loading
\* nor loaded; initialization_lock is 0 when free and otherwise the task
\* that holds it.
NoAppState ==
  [ai_engine |-> FALSE, ai_loading |-> FALSE, ai_loaded |-> FALSE,
   initialization_lock |-> 0]

\* pending: the background reloads scheduled and not yet run
NoCalls ==
  [reload |-> 0, query |-> 0, restart |-> 0, faults |-> 0, pending |-> 0]

\* The record of a ranking: the question, its categories, the entries of the collection and
\* their distances from the question, the documents and the label returned,
\* and the distances and the label of the ranking before a distance moved.
NoRanking ==
  [op |-> "none", question |-> <<>>, categories |-> <<>>,
   entries |-> <<>>, dist |-> <<>>,
   docs |-> <<>>, confidence |-> "", ranked |-> <<>>,
   before |-> [dist |-> <<>>, confidence |-> ""]]

Idle ==
  /\ ai = NoEngine
  /\ loader = NoLoader
  /\ conversation_history = JsonList(<<>>)
  /\ last = NoCall
  /\ calls = NoCalls
  /\ asked = <<>>

Init ==
  /\ Idle
  /\ chroma \in {NoCollection, LeftCollection}
  /\ disk \in {StoreOf(0).d, StoreOf(Len(Catalogue)).d}
  /\ memory_file = NoFile
  /\ manager = EmptyManager
  /\ book = <<>>
  /\ ranking = NoRanking
  /\ workers = NoWorkers
  /\ app_state = NoAppState

\* create_ai_engine(lazy, contextual): the constructor, which initializes
\* the heavy components unless lazy; ContextualRailAdviceAI then loads the
\* memory.  A constructor that raises leaves no engine.
Construct(variant, lazy) ==
  /\ ~ai.alive
  /\ \E env \in IF lazy THEN {NoEnv} ELSE InitEnvs :
       \E i \in {IF lazy
                 THEN [ai |-> NewEngine(variant, lazy), loader |-> loader,
                       chroma |-> chroma, raised |-> FALSE]
                 ELSE initialize_heavy_components(NewEngine(variant, lazy),
                                                  loader, chroma, disk, env)} :
         /\ ai' = IF i.raised THEN NoEngine ELSE i.ai
         /\ loader' = i.loader
         /\ chroma' = i.chroma
         /\ conversation_history' =
              IF ~i.raised /\ variant = "contextual"
              THEN load_memory(memory_file) ELSE conversation_history
         /\ last' = [NoCall EXCEPT !.op = "construct", !.raised = i.raised]
  /\ asked' = IF variant = "contextual" /\ load_memory(memory_file).kind = "list"
              THEN load_memory(memory_file).items ELSE <<>>
  /\ UNCHANGED <<app_state, workers, disk, memory_file, calls, manager, book, ranking>>

\* initialize_heavy_components called on a lazily constructed engine
Initialize ==
  /\ ai.alive /\ ~ai.initialized
  /\ \E env \in InitEnvs :
       \E i \in {initialize_heavy_components(ai, loader, chroma, disk, env)} :
         /\ ai' = i.ai
         /\ loader' = i.loader
         /\ chroma' = i.chroma
         /\ last' = [NoCall EXCEPT !.op = "initialize", !.raised = i.raised]
  /\ UNCHANGED <<app_state, workers, disk, conversation_history, memory_file, calls, asked,
                 manager, book, ranking>>

Reload ==
  /\ ai.alive /\ calls.reload < MaxCalls
  /\ \E env \in ReloadEnvs :
       \E r \in {reload_documents(ai, loader, chroma, disk, env)} :
         /\ ai' = r.ai
         /\ loader' = r.loader
         /\ chroma' = r.chroma
         /\ last' = [NoCall EXCEPT !.op = "reload", !.raised = r.raised]
  /\ calls' = [calls EXCEPT !.reload = @ + 1]
  /\ UNCHANGED <<app_state, workers, disk, conversation_history, memory_file, asked, manager,
                 book, ranking>>

\* Whether a query of text gets as far as the embedder, the index or the
\* generator; what those do makes no difference to the other queries.
Retrieves(text) ==
  /\ classify_for(ai.variant, text).kind \notin {"greeting", "identity", "help"}
  /\ ai.initialized
  /\ ai.documents_text # <<>>

\* What the environment does during a query: the components work and the
\* collection reports any distances, or some component fails.  Only the
\* engine with memory writes a file.
QueryEnvs(text) ==
  {Env(f, d, dm) :
     f \in FaultSets((IF Retrieves(text) THEN QueryFaults ELSE {})
                     \cup (IF ai.variant = "contextual" THEN MemoryFaults
                           ELSE {})),
     d \in [1..Len(chroma.entries) -> Distances],
     dm \in {"unchanged", "truncated"}}

\* One call of query on the engine; the base engine has no memory, so
\* its log and file stay as they are.
Answer(text) ==
  /\ ai.alive
  /\ \E env \in {e \in QueryEnvs(text) :
                   /\ e.damage \in Damages(e.failing)
                   /\ (e.failing # {} \/ ~Retrieves(text))
                        => e.dist = Nominal(Len(chroma.entries))} :
       \E r \in {IF ai.variant = "contextual"
                 THEN contextual_query(ai, loader, chroma, disk,
                                       conversation_history, memory_file,
                                       text, env)
                 ELSE query(ai, loader, chroma, disk, text, env)
                      @@ [history |-> conversation_history,
                          file |-> memory_file]} :
         /\ ai' = r.st.ai
         /\ loader' = r.st.loader
         /\ chroma' = r.st.chroma
         /\ conversation_history' = r.history
         /\ memory_file' = r.file
         /\ last' = [op |-> "query", question |-> text, result |-> r.result,
                     raised |-> r.raised, touched |-> r.touched, before |-> ai,
                     failing |-> env.failing, docs |-> <<>>]
         /\ asked' = IF r.raised \/ ai.variant # "contextual" THEN asked
                     ELSE Append(asked, [user |-> text, ai |-> r.result.answer])
  /\ calls' = [calls EXCEPT !.query = @ + 1]
  /\ UNCHANGED <<app_state, workers, disk, manager, book, ranking>>

Query(text) == calls.query < MaxCalls /\ Answer(text)

\* The questions find_best_response is called with directly
Questions == {t_empty, t_hva_er_etcs}

FindFaults == ComponentFaults({"encode", "index_query", "embedder_load"})

\* One call of find_best_response with the analysis of the question, as
\* query makes it.
FindBest(text) ==
  /\ ai.alive /\ calls.query < MaxCalls
  /\ \E env \in {Env(f, d, "unchanged") :
                   f \in FaultSets(FindFaults),
                   d \in [1..Len(chroma.entries) -> Distances]} :
       /\ (env.failing # {} \/ ai.documents_text = <<>>)
             => env.dist = Nominal(Len(chroma.entries))
       /\ \E f \in {find_best_response(ai, loader, chroma, disk, text,
                        extract_keywords_and_intent(ai, text), env)} :
            /\ ai' = f.st.ai
            /\ loader' = f.st.loader
            /\ chroma' = f.st.chroma
            /\ last' = [op |-> "find", question |-> text,
                        result |-> [NoResult EXCEPT
                                      !.confidence = f.confidence,
                                      !.sources = Len(f.docs)],
                        raised |-> f.raised, touched |-> f.touched,
                        before |-> ai, failing |-> env.failing,
                        docs |-> f.docs]
  /\ calls' = [calls EXCEPT !.query = @ + 1]
  /\ UNCHANGED <<app_state, workers, disk, conversation_history, memory_file, asked, manager,
                 book, ranking>>

Next ==
  \/ \E variant \in {"base", "contextual"}, lazy \in BOOLEAN :
       Construct(variant, lazy)
  \/ Initialize
  \/ Reload
  \/ \E text \in Texts : Query(text)
  \/ \E text \in Questions : FindBest(text)

Spec == Init /\ [][Next]_vars

(***************************************************************************)
(* A conversation with the engine with memory                              *)
(***************************************************************************)

\* The dialog of test_conversation.py
Dialog == <<t_hei, t_hvem_er_du, t_ok, t_hade>>

\* What the user types in turn i: the dialog over and over, each round with
\* one more blank after the text, so that no two turns are alike.
Script(i) ==
  Dialog[((i - 1) % Len(Dialog)) + 1]
    \o [k \in 1..((i - 1) \div Len(Dialog)) |-> " "]

\* How many turns a conversation has
MaxTurns == 22

MemoryInit ==
  /\ Idle
  /\ chroma = NoCollection
  /\ disk \in {StoreOf(0).d, StoreOf(1).d}
  /\ memory_file \in MemoryFiles
  /\ manager = EmptyManager
  /\ book = <<>>
  /\ ranking = NoRanking
  /\ workers = NoWorkers
  /\ app_state = NoAppState

\* The next turn of the conversation
Ask == calls.query < MaxTurns /\ Answer(Script(calls.query + 1))

MemoryNext ==
  \/ \E lazy \in BOOLEAN : Construct("contextual", lazy)
  \/ Ask

SpecMemory == MemoryInit /\ [][MemoryNext]_vars

(***************************************************************************)
(* Properties of the engine                                                *)
(***************************************************************************)

\* Documents are loaded only into an initialized engine, so the calls of
\* ensure_initialized made where documents are present find it initialized.
LoadedIsInitialized == ai.documents_text # <<>> => ai.initialized

\* The upper-case form of a lower-case letter
UpperChar(c) ==
  IF \E i \in 1..Len(LowerCase) : LowerCase[i] = c
  THEN UpperCase[CHOOSE i \in 1..Len(LowerCase) : LowerCase[i] = c]
  ELSE c

\* The spellings of a lower-case word in any letter case
RECURSIVE Spellings(_)
Spellings(w) ==
  IF w = <<>> THEN {<<>>}
  ELSE {<<c>> \o rest : c \in {Head(w), UpperChar(Head(w))},
                        rest \in Spellings(Tail(w))}

GreetingTokens == UNION {Spellings(greeting_words[i]) : i \in 1..Len(greeting_words)}

\* C5: find_best_response does not raise; with documents loaded, a failure
\* of the embedding of the question or of the query on the collection (the
\* call fails, or the handle is of a collection that is gone) gives no
\* documents and the confidence "Error", whatever the question.
C5_RetrievalFailsSoft ==
  last.op = "find" =>
    /\ ~last.raised
    /\ ( /\ last.before.documents_text # <<>>
         /\ \/ <<"fail", "encode">> \in last.failing
            \/ <<"fail", "index_query">> \in last.failing
            \/ ~HandleValid(last.before, chroma) )
       => (last.docs = <<>> /\ last.result.confidence = "Error")

\* C5 witness: the query on the collection failed for the empty question,
\* with documents loaded.
C5_Witness ==
  /\ last.op = "find"
  /\ last.question = <<>>
  /\ last.before.documents_text # <<>>
  /\ <<"fail", "index_query">> \in last.failing
  /\ last.result.confidence = "Error"

\* Whether the last call was a query of an input that is a question.
AskedQuestion ==
  /\ last.op = "query"
  /\ classify_for(last.before.variant, last.question).kind = "question"

NoDocumentsResult ==
  /\ ~last.raised
  /\ last.result.confidence = "No Documents"
  /\ last.result.sources = 0
  /\ last.result.answer = Ans("no_documents", 0, "", <<>>)

\* C6 as stated: with no documents loaded, initialized or not, the query of
\* a question returns "No Documents", no sources and the prompt to add
\* documents.
C6_NoDocumentsInEveryState ==
  (AskedQuestion /\ last.before.documents_text = <<>>) => NoDocumentsResult

\* C6: with no documents loaded, the query of a question returns "No
\* Documents", no sources and the prompt to add documents when the engine is
\* initialized; a lazily constructed engine that is not yet initialized
\* returns "Loading" and no sources.
C6_NoDocuments ==
  (AskedQuestion /\ last.before.documents_text = <<>>) =>
    IF last.before.initialized THEN NoDocumentsResult
    ELSE /\ ~last.raised
         /\ last.result.confidence = "Loading"
         /\ last.result.sources = 0
         /\ last.result.answer = Ans("loading", 0, "", <<>>)

\* C6 witness: "Hva er ETCS?" asked of an initialized engine without
\* documents.
C6_Witness ==
  /\ AskedQuestion
  /\ last.question = t_hva_er_etcs
  /\ last.before.initialized
  /\ last.before.documents_text = <<>>
  /\ last.result.confidence = "No Documents"

\* Both classifiers answer greeting for every spelling of a greeting word.
GreetingTokensAreGreetings ==
  \A variant \in {"base", "contextual"} : \A token \in GreetingTokens :
    classify_for(variant, token) = Label("greeting")

\* C7: a single greeting word in any letter case is classified greeting by
\* both engines; its query returns the label greeting, the confidence
\* "Greeting" and no sources, uses neither the embedder nor the collection,
\* leaves the engine, the loader and the collection as they were, and
\* answers with the number of documents loaded.
C7_Greeting ==
  /\ GreetingTokensAreGreetings
  /\ (last.op = "query" /\ last.question \in GreetingTokens) =>
       /\ ~last.raised
       /\ last.result.input_type = Label("greeting")
       /\ last.result.confidence = "Greeting"
       /\ last.result.sources = 0
       /\ last.touched = {}
       /\ ai = last.before
       /\ last.result.answer =
            IF Len(ai.documents_text) = 0
            THEN Ans("greeting_no_documents", 0, "", <<>>)
            ELSE Ans("greeting", Len(ai.documents_text), "", <<>>)

\* C7 witness: "HI" answered by an initialized engine with documents.
C7_Witness ==
  /\ last.op = "query"
  /\ last.question = t_HI
  /\ last.before.initialized
  /\ last.result.answer = Ans("greeting", Len(ai.documents_text), "", <<>>)
  /\ Len(ai.documents_text) > 0

\* The collection and the locally tracked documents correspond one to one:
\* entry k is the text of document k and points at it.
OneEntryPerDocument ==
  /\ Len(chroma.entries) = Len(ai.documents_text)
  /\ \A k \in 1..Len(chroma.entries) :
       /\ chroma.entries[k].text = ai.documents_text[k]
       /\ chroma.entries[k].doc_index = k - 1

\* C13: whenever initialize_heavy_components or reload_documents has
\* completed, the collection holds exactly one entry per document embedded
\* during that load: none left over from an earlier load or process, and no
\* tracked document without an entry.
C13_CollectionMatchesDocuments ==
  (last.op \in {"construct", "initialize", "reload"} /\ ~last.raised
     /\ ai.initialized)
    => OneEntryPerDocument

\* The engine with memory was asked something its classifier calls farewell.
SaidFarewell ==
  /\ last.op = "query"
  /\ last.before.variant = "contextual"
  /\ classify_for("contextual", last.question) = Label("farewell")

\* C18: in the memory-augmented variant a farewell is answered with the fixed
\* farewell text as an early exit, in every engine state (uninitialized, no
\* documents, documents loaded), without retrieval, and the turn is appended
\* to the conversation log.
C18_FarewellEarlyExit ==
  SaidFarewell =>
    /\ ~last.raised
    /\ last.result.answer = Ans("farewell", 0, "", <<>>)
    /\ last.touched = {}
    /\ conversation_history.items # <<>>
    /\ conversation_history.items[Len(conversation_history.items)]
         = [user |-> last.question, ai |-> last.result.answer]

\* An initialized engine was asked a single token that is no greeting.
AskedSingleWord ==
  /\ last.op = "query"
  /\ last.before.initialized
  /\ classify_for(last.before.variant, last.question).kind
       \in {"single_word", "single_keyword"}

\* C19: on an initialized engine a single_word or single_keyword_<category>
\* input is answered by the single-word handler (a sentence of the nearest
\* document that has the word, or a clarifying prompt) whether or not
\* documents are indexed; the two kinds are treated alike when there are
\* none.
C19_SingleWordHandled ==
  (AskedSingleWord /\ ~last.raised /\ last.result.confidence # "Error") =>
    last.result.answer.tpl
      \in {"single_word_found", "single_word_prompt", "single_keyword_prompt"}

\* A query answered by a lazily constructed engine that is not initialized
LazyQuery ==
  /\ ai.alive /\ ai.lazy_init /\ ~ai.initialized
  /\ last'.op = "query"
  /\ calls'.query = calls.query + 1

LazyQueryLoads ==
  LazyQuery =>
    /\ ai' = ai /\ loader' = loader /\ chroma' = chroma /\ disk' = disk
    /\ ~last'.raised
    /\ last'.result.sources = 0
    /\ IF last'.result.input_type.kind \in {"greeting", "identity", "help"}
       THEN /\ last'.result.confidence = Title(last'.result.input_type.kind)
            /\ ~last'.result.loading
            /\ last'.result.answer.tpl # "loading"
       ELSE /\ last'.result.confidence = "Loading"
            /\ last'.result.loading
            /\ last'.result.answer.tpl = "loading"

QueryReturned == last.op = "query" /\ ~last.raised

\* The write of save_memory during the last call went through.
WriteWorked == <<"fail", "memory_write">> \notin last.failing

\* C1 as stated: query of either engine returns a record and never raises,
\* whatever the input, the state of the engine and the component that
\* fails.
C1_QueryNeverRaises ==
  last.op = "query" =>
    /\ ~last.raised
    /\ last.result.confidence # ""
    /\ last.result.sources >= 0
    /\ last.result.answer.tpl # ""

\* The last min(n, MemoryCap) of the n turns loaded and answered, oldest
\* first.
LastTurns ==
  LET n == Len(asked)
      k == IF n < MemoryCap THEN n ELSE MemoryCap
  IN  [i \in 1..k |-> asked[n - k + i]]

FileHolds(turns) ==
  /\ memory_file.exists
  /\ memory_file.kind = "list"
  /\ json_load(memory_file) = JsonList(turns)

LastTurnLogged ==
  /\ conversation_history.kind = "list"
  /\ conversation_history.items # <<>>
  /\ conversation_history.items[Len(conversation_history.items)] =
       [user |-> last.question, ai |-> last.result.answer]

FileEqualsLog ==
  /\ memory_file = json_dump(conversation_history)
  /\ json_load(memory_file) = conversation_history

C4_LogStartsAsList ==
  (last.op = "construct" /\ ~last.raised /\ ai.variant = "contextual") =>
    conversation_history =
      IF memory_file.exists /\ memory_file.kind = "list"
      THEN JsonList(json_load(memory_file).items)
      ELSE JsonList(<<>>)

(***************************************************************************)
(* The ranking of find_best_response on its own                            *)
(***************************************************************************)

\* The entries of the collection the questions are ranked against
RankEntries ==
  << [id |-> 1, text |-> content_etcs, title |-> title_etcs,
      category |-> "teknologi", doc_index |-> 0],
     [id |-> 2, text |-> content_signal, title |-> title_signal,
      category |-> "general", doc_index |-> 1],
     [id |-> 3, text |-> content_radio, title |-> title_radio,
      category |-> "teknologi", doc_index |-> 2] >>

\* Distances in hundredths, chosen around the thresholds and the bonuses
RankDistances == {0, 29, 30, 39, 40, 140}

RankQuestions == {t_level2, t_signal_stmt, t_hvem_er_du}

\* Lines 609-659 with the collection holding entries at distances dist;
\* categories are those of intent_analysis (lines 571-574).
RankOf(question, categories, entries, dist) ==
  RankResults(question, categories,
              CollectionQuery(entries, dist, NResults))

RankInit ==
  /\ Idle
  /\ chroma = NoCollection
  /\ disk = StoreOf(0).d
  /\ memory_file = NoFile
  /\ manager = EmptyManager
  /\ book = <<>>
  /\ ranking = NoRanking
  /\ workers = NoWorkers
  /\ app_state = NoAppState

\* find_best_response ranks the candidates of a question.
Rank(question, n) ==
  /\ ranking.op = "none"
  /\ \E dist \in [1..n -> RankDistances],
        categories \in {CategoriesFrom(Lower(question), 1)} :
       \E r \in {RankOf(question, categories, Take(RankEntries, n), dist)} :
         ranking' = [op |-> "ranked", question |-> question,
                     categories |-> categories,
                     entries |-> Take(RankEntries, n), dist |-> dist,
                     docs |-> r.docs, confidence |-> r.confidence,
                     ranked |-> r.ranked,
                     before |-> NoRanking.before]
  /\ UNCHANGED <<app_state, workers, ai, loader, chroma, disk, conversation_history,
                 memory_file, last, calls, asked, manager, book>>

\* The same question again after entry i has moved to distance d.
Move(i, d) ==
  /\ ranking.op # "none"
  /\ i \in 1..Len(ranking.entries)
  /\ d # ranking.dist[i]
  /\ \E r \in {RankOf(ranking.question, ranking.categories,
                       ranking.entries,
                       [ranking.dist EXCEPT ![i] = d])} :
       ranking' = [ranking EXCEPT
                     !.op = "moved",
                     !.dist = [ranking.dist EXCEPT ![i] = d],
                     !.docs = r.docs,
                     !.confidence = r.confidence,
                     !.ranked = r.ranked,
                     !.before = [dist |-> ranking.dist,
                                 confidence |-> ranking.confidence]]
  /\ UNCHANGED <<app_state, workers, ai, loader, chroma, disk, conversation_history,
                 memory_file, last, calls, asked, manager, book>>

RankNext ==
  \/ \E question \in RankQuestions, n \in 0..Len(RankEntries) :
       Rank(question, n)
  \/ \E i \in 1..Len(RankEntries), d \in RankDistances : Move(i, d)

SpecRank == RankInit /\ [][RankNext]_vars

(***************************************************************************)
(* Claims about the ranking                                                *)
(***************************************************************************)

\* Which entries have a word of the question in their title, and which
\* have a category of the question
TitleBonusOf ==
  [q \in RankQuestions |->
     [i \in 1..Len(RankEntries) |->
        \E w \in Range(Split(Lower(q))) :
          Contains(Lower(RankEntries[i].title), w)]]

CategoryBonusOf ==
  [q \in RankQuestions |->
     [i \in 1..Len(RankEntries) |->
        RankEntries[i].category \in Range(CategoriesFrom(Lower(q), 1))]]

\* The adjusted score of entry i of a ranking at distances dist, in
\* hundredths: 1 - distance, 0.4 for the title and 0.2 for the category
ScoreOf(dist, i) ==
  (100 - dist[i])
  + (IF TitleBonusOf[ranking.question][i] THEN 40 ELSE 0)
  + (IF CategoryBonusOf[ranking.question][i] THEN 20 ELSE 0)

\* The best adjusted score among the entries at distances dist
BestScore(dist) ==
  CHOOSE s \in {ScoreOf(dist, i) : i \in 1..Len(dist)} :
    \A i \in 1..Len(dist) : ScoreOf(dist, i) <= s

LabelFor(s) ==
  IF s > 100 THEN "High" ELSE IF s > 70 THEN "Medium" ELSE "Low"

LevelOf(label) ==
  IF label = "High" THEN 3 ELSE IF label = "Medium" THEN 2 ELSE 1

\* C8: when the semantic search returns candidates, the confidence label
\* is the one the best adjusted score alone gives (High above 1.0, Medium
\* above 0.7 and up to 1.0, Low otherwise), and when the distances change
\* with the bonuses fixed, a best score that did not drop never gets a
\* lower label.
C8_ConfidenceFromTopScore ==
  (ranking.op # "none" /\ ranking.entries # <<>>) =>
    /\ ranking.confidence = LabelFor(BestScore(ranking.dist))
    /\ (ranking.op = "moved"
        /\ BestScore(ranking.dist) >= BestScore(ranking.before.dist))
         => LevelOf(ranking.confidence)
              >= LevelOf(ranking.before.confidence)

\* A best score that rose across a threshold and took the label with it,
\* with a candidate of a lower score in the ranking.
C8_Witness ==
  /\ ranking.op = "moved"
  /\ Len(ranking.entries) > 1
  /\ BestScore(ranking.dist) > BestScore(ranking.before.dist)
  /\ ranking.before.confidence = "Medium"
  /\ ranking.confidence = "High"
  /\ \E i \in 1..Len(ranking.dist) :
       ScoreOf(ranking.dist, i) <= 70

\* Where the text of entry i is among the documents returned, 0 if nowhere
ReturnedAt(i) ==
  IF \E k \in 1..Len(ranking.docs) : ranking.docs[k] = ranking.entries[i].text
  THEN CHOOSE k \in 1..Len(ranking.docs) :
         ranking.docs[k] = ranking.entries[i].text
  ELSE 0

\* Entry a has the title bonus, entry b has a different title and no title
\* bonus, and they agree on the category bonus.
TitleBonusOnly(a, b) ==
  /\ ranking.entries[a].title # ranking.entries[b].title
  /\ TitleBonusOf[ranking.question][a]
  /\ ~TitleBonusOf[ranking.question][b]
  /\ CategoryBonusOf[ranking.question][a]
       <=> CategoryBonusOf[ranking.question][b]

\* C9: retrieval returns at most two documents, those of the candidates
\* with the highest adjusted scores, the higher score first; a candidate
\* with the title bonus comes before a differently titled candidate without
\* it whose base score is higher by less than 0.4, the other bonus being
\* equal.
C9_TopTwoByScore ==
  ranking.op # "none" =>
    /\ Len(ranking.docs) <= 2
    /\ Len(ranking.docs) =
         (IF Len(ranking.entries) < 2 THEN Len(ranking.entries) ELSE 2)
    /\ \E p \in [1..Len(ranking.docs) -> 1..Len(ranking.entries)] :
         /\ \A k \in 1..Len(ranking.docs) :
              ranking.docs[k] = ranking.entries[p[k]].text
         /\ \A k, l \in 1..Len(ranking.docs) :
              k < l => /\ p[k] # p[l]
                       /\ ScoreOf(ranking.dist, p[k])
                            >= ScoreOf(ranking.dist, p[l])
         /\ \A i \in 1..Len(ranking.entries), k \in 1..Len(ranking.docs) :
              (\A l \in 1..Len(ranking.docs) : p[l] # i)
                => ScoreOf(ranking.dist, i) <= ScoreOf(ranking.dist, p[k])
    /\ \A a, b \in 1..Len(ranking.entries) :
         (TitleBonusOnly(a, b) /\ ranking.dist[a] - ranking.dist[b] < 40)
           => (ReturnedAt(b) # 0
                 => (ReturnedAt(a) # 0 /\ ReturnedAt(a) < ReturnedAt(b)))

\* Three candidates of which two are returned: the one with the title bonus
\* first, ahead of one that is nearer to the question by less than 0.4.
C9_Witness ==
  /\ ranking.op # "none"
  /\ Len(ranking.entries) = 3
  /\ Len(ranking.docs) = 2
  /\ \E a, b \in 1..Len(ranking.entries) :
       /\ TitleBonusOnly(a, b)
       /\ ranking.dist[a] > ranking.dist[b]
       /\ ranking.dist[a] - ranking.dist[b] < 40
       /\ ReturnedAt(a) = 1
       /\ ReturnedAt(b) = 2

\* The question and the title have a lower-cased whitespace token in common.
SharesToken(question, title) ==
  Range(Split(Lower(question))) \cap Range(Split(Lower(title))) # {}

\* The candidates of the semantic search the ranking was made of.
Candidates == CollectionQuery(ranking.entries, ranking.dist, NResults)

\* C23: the adjusted score of every candidate is (1 - distance), plus 0.4
\* exactly when the question and the candidate's title share a lower-cased
\* whitespace token, plus 0.2 exactly when the candidate's category is one
\* of the extracted categories, and nothing else.
C23_ScoreTerms ==
  ranking.op # "none" =>
    /\ Len(ranking.ranked) = Len(Candidates)
    /\ \A k \in 1..Len(ranking.ranked) :
         LET cand == Candidates[ranking.ranked[k].pos]
         IN  ranking.ranked[k].score =
               (100 - cand.distance)
               + (IF SharesToken(ranking.question, cand.title)
                  THEN 40 ELSE 0)
               + (IF cand.category \in Range(ranking.categories)
                  THEN 20 ELSE 0)

\* The title bonus as line 631 gives it: a word of the question that occurs
\* anywhere in the lower-cased title, inside a longer word too.
ScoreTermsAsComputed ==
  ranking.op # "none" =>
    /\ Len(ranking.ranked) = Len(Candidates)
    /\ \A k \in 1..Len(ranking.ranked) :
         LET cand == Candidates[ranking.ranked[k].pos]
         IN  /\ ranking.ranked[k].doc = cand.doc
             /\ ranking.ranked[k].score =
                  (100 - cand.distance)
                  + (IF \E w \in Range(Split(Lower(ranking.question))) :
                          Contains(Lower(cand.title), w)
                     THEN 40 ELSE 0)
                  + (IF cand.category \in Range(ranking.categories)
                     THEN 20 ELSE 0)

(***************************************************************************)
(* The document manager on its own                                         *)
(***************************************************************************)

\* The documents the application adds; uuid4 gives each its own id.
Shelf ==
  << Catalogue[2],
     [id |-> "d4", title |-> title_radio, content |-> content_escapes,
      type |-> "technical", category |-> "teknologi", tags |-> <<>>] >>

ShelfIds == {Shelf[i].id : i \in 1..Len(Shelf)}

\* The keyword arguments update_document is called with
Kwargs ==
  {[NoKwargs EXCEPT !.keys = {"content"}, !.content = c] :
     c \in {content_radio, content_escapes}}
  \cup {[NoKwargs EXCEPT !.keys = {"title", "category", "tags"},
                         !.title = title_signal, !.category = "general",
                         !.tags = <<tag_signal>>]}
  \cup {[NoKwargs EXCEPT !.keys = {"file_path"}, !.file_path = p] :
          p \in ShelfIds}
  \cup {[NoKwargs EXCEPT !.keys = {"id"}, !.id = p] : p \in ShelfIds}

\* book: per document added, its id, the content it was added with,
\* whether it has itself been updated or removed since, and whether it has
\* been removed.
Added(doc_id) == \E i \in 1..Len(book) : book[i].id = doc_id

Touch(doc_id, ok, removed) ==
  [i \in 1..Len(book) |->
     IF book[i].id = doc_id /\ ok
     THEN [book[i] EXCEPT !.touched = TRUE, !.removed = @ \/ removed]
     ELSE book[i]]

\* What a call of the document manager is remembered by: the operation, the
\* id, what it returned and the manager and the directory before it.
DocCall(op, doc_id, ok) ==
  [op |-> op, doc_id |-> doc_id, ok |-> ok, m |-> manager, d |-> disk]

DocsInit ==
  /\ Idle
  /\ chroma = NoCollection
  /\ disk = EmptyDisk
  /\ memory_file = NoFile
  /\ manager = EmptyManager
  /\ book = <<>>
  /\ ranking = NoRanking
  /\ workers = NoWorkers
  /\ app_state = NoAppState

AddDoc(c) ==
  /\ ~Added(c.id)
  /\ \E r \in {add_document(manager, disk, c.id, c.title, c.content, c.type,
                            c.category, c.tags)} :
       /\ manager' = r.m
       /\ disk' = r.d
  /\ book' = Append(book, [id |-> c.id, content |-> c.content,
                           touched |-> FALSE, removed |-> FALSE])
  /\ last' = DocCall("add_document", c.id, TRUE)
  /\ UNCHANGED <<app_state, workers, ai, loader, chroma, conversation_history, memory_file,
                 calls, asked, ranking>>

UpdateDoc(doc_id, kw) ==
  /\ \E r \in {update_document(manager, disk, doc_id, kw)} :
       /\ manager' = r.m
       /\ disk' = r.d
       /\ book' = Touch(doc_id, r.ok, FALSE)
       /\ last' = DocCall("update_document", doc_id, r.ok)
  /\ UNCHANGED <<app_state, workers, ai, loader, chroma, conversation_history, memory_file,
                 calls, asked, ranking>>

RemoveDoc(doc_id) ==
  /\ \E r \in {remove_document(manager, disk, doc_id)} :
       /\ manager' = r.m
       /\ disk' = r.d
       /\ book' = Touch(doc_id, r.ok, TRUE)
       /\ last' = DocCall("remove_document", doc_id, r.ok)
  /\ UNCHANGED <<app_state, workers, ai, loader, chroma, conversation_history, memory_file,
                 calls, asked, ranking>>

DocsNext ==
  \/ \E i \in 1..Len(Shelf) : AddDoc(Shelf[i])
  \/ \E doc_id \in ShelfIds, kw \in Kwargs : UpdateDoc(doc_id, kw)
  \/ \E doc_id \in ShelfIds : RemoveDoc(doc_id)

SpecDocs == DocsInit /\ [][DocsNext]_vars

(***************************************************************************)
(* Claims about the document manager                                       *)
(***************************************************************************)

\* C10: get_document on the id add_document returned yields the content
\* that was added, exactly, for as long as only other documents are added,
\* updated or removed.
C10_AddThenGet ==
  \A i \in 1..Len(book) :
    ~book[i].touched =>
      /\ get_document(manager, disk, book[i].id).found
      /\ get_document(manager, disk, book[i].id).content = book[i].content

\* The round trip of a content with quotes, a backslash and a newline
\* while another document is there and none has been updated or removed.
DocsRoundTrip ==
  (\A i \in 1..Len(book) : ~book[i].touched) => C10_AddThenGet

DocsRoundTripSeen ==
  /\ Len(book) = Len(Shelf)
  /\ \A i \in 1..Len(book) : ~book[i].touched
  /\ get_document(manager, disk, "d4").content = content_escapes

\* The ids in the lists of one dict of a search index
IdsIn(buckets) == UNION {Range(buckets[i].ids) : i \in 1..Len(buckets)}

\* Every id a search index lists under a type, a category or a tag
IndexedIds(si) == IdsIn(si.by_type) \cup IdsIn(si.by_category) \cup IdsIn(si.by_tags)

\* C11: once remove_document(id) has succeeded, get_document(id) finds
\* nothing, the id is in no index and in no list of the search index, in
\* memory and in the files, and another remove_document(id) returns False
\* and changes nothing.
C11_RemovedIsGone ==
  /\ \A i \in 1..Len(book) :
       book[i].removed =>
         /\ ~get_document(manager, disk, book[i].id).found
         /\ ~HasKey(manager.index, book[i].id)
         /\ ~HasKey(disk.index_file, book[i].id)
         /\ book[i].id \notin IndexedIds(manager.search_index)
         /\ book[i].id \notin IndexedIds(disk.search_index_file)
  /\ (last.op = "remove_document"
      /\ ~HasKey(last.m.index, last.doc_id))
       => (~last.ok /\ manager = last.m /\ disk = last.d)

\* A document with a type, a category and a tag was removed while another
\* one is still indexed, and it was then removed once more.
C11_Witness ==
  /\ last.op = "remove_document"
  /\ ~last.ok
  /\ \E i \in 1..Len(book) :
       /\ book[i].id = last.doc_id
       /\ book[i].removed
       /\ book[i].id = Catalogue[2].id
  /\ IndexedIds(manager.search_index) # {}

\* C14: in every state reached by add_document, update_document and
\* remove_document each stored record's id is the key it was created under
\* and no two records share an id, in memory and in the index file.
C14_IdIsImmutable ==
  \A index \in {manager.index, disk.index_file} :
    /\ \A i \in 1..Len(index) : index[i].id = index[i].key
    /\ \A i, j \in 1..Len(index) : index[i].id = index[j].id => i = j

\* One dict of a search index lists exactly the documents of the index that
\* Has says have the key, each once.
DictAgrees(buckets, index, Has(_, _), keys) ==
  /\ \A b \in 1..Len(buckets) :
       /\ \A i, j \in 1..Len(buckets[b].ids) :
            buckets[b].ids[i] = buckets[b].ids[j] => i = j
       /\ \A doc_id \in Range(buckets[b].ids) :
            /\ HasKey(index, doc_id)
            /\ Has(index[KeyPos(index, doc_id)], buckets[b].k)
  /\ \A i \in 1..Len(index), k \in keys :
       Has(index[i], k) => index[i].key \in IdsUnder(buckets, k)

\* The types, categories and tags the documents are given
TypeKeys == {"general", "technical"}

CategoryKeys == {"general", "teknologi"}

TagKeys == {tag_signal, tag_etcs}

OfType(doc_info, k) == doc_info.type = k

OfCategory(doc_info, k) == doc_info.category = k

Tagged(doc_info, k) == k \in Range(doc_info.tags)

\* C27: after any sequence of add_document, update_document and
\* remove_document the search index agrees with the document index: a
\* document is listed under a type, a category or a tag exactly when it is
\* in the index and has it, each id once, and no removed id is left; in
\* memory and in the files.
C27_SearchIndexAgrees ==
  /\ DictAgrees(manager.search_index.by_type, manager.index, OfType, TypeKeys)
  /\ DictAgrees(manager.search_index.by_category, manager.index, OfCategory, CategoryKeys)
  /\ DictAgrees(manager.search_index.by_tags, manager.index, Tagged, TagKeys)
  /\ DictAgrees(disk.search_index_file.by_type, disk.index_file, OfType, TypeKeys)
  /\ DictAgrees(disk.search_index_file.by_category, disk.index_file,
                OfCategory, CategoryKeys)
  /\ DictAgrees(disk.search_index_file.by_tags, disk.index_file, Tagged, TagKeys)

\* A document was moved to another category and tagged, another was
\* removed: the lists it was in are left empty.
C27_Witness ==
  /\ last.op = "remove_document" /\ last.ok
  /\ \E i \in 1..Len(book) : book[i].touched /\ ~book[i].removed
  /\ Len(manager.index) = 1
  /\ IdsUnder(manager.search_index.by_category, "teknologi") = {}
  /\ BucketPos(manager.search_index.by_category, "teknologi") # 0
  /\ IdsUnder(manager.search_index.by_tags, tag_signal) # {}

(***************************************************************************)
(* The application: documents posted while the engine is loaded            *)
(* (src/src/api.py)                                                        *)
(***************************************************************************)

\* EnhancedFileDocumentManager() of the application: load_index and
\* load_search_index read the files.
ManagerOf(d) == [index |-> d.index_file, search_index |-> d.search_index_file]

ApiInit ==
  /\ Idle
  /\ chroma \in {NoCollection, LeftCollection}
  /\ disk \in {StoreOf(0).d, StoreOf(1).d}
  /\ memory_file = NoFile
  /\ manager = ManagerOf(disk)
  /\ book = <<>>
  /\ ranking = NoRanking
  /\ workers = NoWorkers
  /\ app_state = NoAppState

\* POST /api/documents: the document goes to the application's manager and,
\* when the engine is loaded, a reload is scheduled.
PostDocument(c) ==
  /\ ~Added(c.id)
  /\ \E r \in {add_document(manager, disk, c.id, c.title, c.content, c.type,
                            c.category, c.tags)} :
       /\ manager' = r.m
       /\ disk' = r.d
  /\ book' = Append(book, [id |-> c.id, content |-> c.content,
                           touched |-> FALSE, removed |-> FALSE,
                           scheduled |-> ai.alive])
  /\ calls' = [calls EXCEPT !.pending = IF ai.alive THEN @ + 1 ELSE @]
  /\ last' = [NoCall EXCEPT !.op = "post"]
  /\ UNCHANGED <<app_state, workers, ai, loader, chroma, conversation_history, memory_file,
                 asked, ranking>>

\* reload_ai_background: reload_documents of the engine, in a worker thread.
ReloadBackground ==
  /\ ai.alive /\ calls.pending > 0
  /\ \E env \in ReloadEnvs :
       \E r \in {reload_documents(ai, loader, chroma, disk, env)} :
         /\ ai' = r.ai
         /\ loader' = r.loader
         /\ chroma' = r.chroma
         /\ last' = [NoCall EXCEPT !.op = "reload", !.raised = r.raised,
                                   !.failing = env.failing]
  /\ calls' = [calls EXCEPT !.pending = @ - 1]
  /\ UNCHANGED <<app_state, workers, disk, conversation_history, memory_file, asked, manager,
                 book, ranking>>

\* POST /api/chat once the engine is loaded
Chat(text) == calls.query < MaxCalls /\ Answer(text)

ApiNext ==
  \/ Construct("contextual", FALSE)
  \/ \E i \in 1..Len(Shelf) : PostDocument(Shelf[i])
  \/ ReloadBackground
  \/ \E text \in {t_hva_er_etcs, t_ok} : Chat(text)

SpecApi == ApiInit /\ [][ApiNext]_vars

(***************************************************************************)
(* Claims about the application                                            *)
(***************************************************************************)

\* The engine indexes a document of this content: it tracks the text and the
\* collection has an entry for it.
Indexed(content) ==
  /\ content \in Range(ai.documents_text)
  /\ \E k \in 1..Len(chroma.entries) : chroma.entries[k].text = content

\* The reloads scheduled have all run and the last one met no failure.
ReloadsDone ==
  /\ calls.pending = 0
  /\ last.op = "reload"
  /\ ~last.raised
  /\ last.failing = {}

\* C12: once the reload scheduled by a document posted while the engine was
\* loaded has completed, the engine indexes the document: its text is among
\* documents_text and in the collection.
C12_PostedIsIndexed ==
  ReloadsDone =>
    \A i \in 1..Len(book) : book[i].scheduled => Indexed(book[i].content)

(***************************************************************************)
(* The texts of the answers                                                *)
(***************************************************************************)

\* The character U+2022
Bullet == "(bullet)"

\* lines 367-368
greeting_texts ==
  [none |->
     <<"H","e","i","!"," ","J","e","g"," ","e","r"," ","R","a","i","l","A","d","v","i","c","e"," ","A","I","."," ","J","e","g"," ","h","a","r"," ","i","n","g","e","n"," ","d","o","k","u","m","e","n","t","e","r"," ","å"," ","j","o","b","b","e"," ","m","e","d"," ","e","n","n","å"," ","-"," ","l","e","g","g"," ","t","i","l"," ","d","o","k","u","m","e","n","t","e","r"," ","s","å"," ","k","a","n"," ","j","e","g"," ","h","j","e","l","p","e"," ","d","e","g","!">>,
   before |->
     <<"H","e","i","!"," ","J","e","g"," ","e","r"," ","R","a","i","l","A","d","v","i","c","e"," ","A","I"," ","m","e","d"," ">>,
   after |->
     <<" ","d","o","k","u","m","e","n","t","e","r"," ","t","i","l","g","j","e","n","g","e","l","i","g","."," ","H","v","a"," ","k","a","n"," ","j","e","g"," ","h","j","e","l","p","e"," ","d","e","g"," ","m","e","d","?">>]

\* get_identity_response
identity_texts ==
  [none |->
     <<"J","e","g"," ","e","r"," ","R","a","i","l","A","d","v","i","c","e"," ","A","I",","," ","d","i","n"," ","j","e","r","n","b","a","n","e","t","e","k","n","i","s","k","e"," ","a","s","s","i","s","t","e","n","t","."," ",Newline,Newline,"J","e","g"," ","e","r"," ","u","t","v","i","k","l","e","t"," ","f","o","r"," ","å"," ","h","j","e","l","p","e"," ","m","e","d"," ","j","e","r","n","b","a","n","e","r","e","l","a","t","e","r","t","e"," ","s","p","ø","r","s","m","å","l",","," ","m","e","n"," ","h","a","r"," ","i","n","g","e","n"," ","d","o","k","u","m","e","n","t","e","r"," ","å"," ","j","o","b","b","e"," ","m","e","d"," ","e","n","n","å","."," ","L","e","g","g"," ","t","i","l"," ","d","o","k","u","m","e","n","t","e","r"," ","v","i","a"," ","d","o","c","u","m","e","n","t"," ","m","a","n","a","g","e","r",","," ","s","å"," ","k","a","n"," ","j","e","g"," ","g","i"," ","d","e","g"," ","s","v","a","r"," ","b","a","s","e","r","t"," ","p","å"," ","d","i","n"," ","k","u","n","n","s","k","a","p","!">>,
   before |->
     <<"J","e","g"," ","e","r"," ","R","a","i","l","A","d","v","i","c","e"," ","A","I",","," ","d","i","n"," ","i","n","t","e","l","l","i","g","e","n","t","e"," ","a","s","s","i","s","t","e","n","t"," ","f","o","r"," ","j","e","r","n","b","a","n","e","t","e","k","n","i","s","k","e"," ","s","p","ø","r","s","m","å","l",".",Newline,Newline,"J","e","g"," ","h","a","r"," ","t","i","l","g","a","n","g"," ","t","i","l"," ">>,
   after |->
     <<" ","d","o","k","u","m","e","n","t","e","r"," ","o","g"," ","k","a","n"," ","h","j","e","l","p","e"," ","d","e","g"," ","m","e","d",":",Newline,Bullet," ","T","e","k","n","i","s","k","e"," ","s","p","ø","r","s","m","å","l"," ","o","m"," ","j","e","r","n","b","a","n","e"," ","(","E","T","C","S",","," ","R","A","M","S",","," ","T","S","I",")"," "," ",Newline,Bullet," ","P","r","o","s","j","e","k","t","i","n","f","o","r","m","a","s","j","o","n"," ","o","g"," ","k","o","s","t","n","a","d","s","e","s","t","i","m","a","t",Newline,Bullet," ","K","o","m","p","e","t","a","n","s","e"," ","o","g"," ","e","r","f","a","r","i","n","g",Newline,Bullet," ","G","e","n","e","r","e","l","l","e"," ","j","e","r","n","b","a","n","e","r","e","l","a","t","e","r","t","e"," ","e","m","n","e","r",Newline,Newline,"S","t","i","l","l"," ","m","e","g"," ","g","j","e","r","n","e"," ","s","p","ø","r","s","m","å","l"," ","-"," ","j","e","g"," ","s","v","a","r","e","r"," ","b","a","s","e","r","t"," ","p","å"," ","d","o","k","u","m","e","n","t","a","s","j","o","n","e","n"," ","d","i","n","!">>]

\* get_help_response
help_texts ==
  [all |->
     <<"H","e","r"," ","e","r"," ","h","v","a"," ","j","e","g"," ","k","a","n"," ","h","j","e","l","p","e"," ","d","e","g"," ","m","e","d",":",Newline,Newline,"*","*","S","p","ø","r","s","m","å","l","s","t","y","p","e","r"," ","j","e","g"," ","f","o","r","s","t","å","r",":","*","*",Newline,Bullet," ","T","e","k","n","i","s","k","e"," ","s","p","ø","r","s","m","å","l",":"," ",Quote,"H","v","a"," ","e","r"," ","E","T","C","S","?",Quote," ",Quote,"F","o","r","t","e","l","l"," ","o","m"," ","R","A","M","S",Quote,Newline,Bullet," ","K","o","s","t","n","a","d","s","s","p","ø","r","s","m","å","l",":"," ",Quote,"H","v","a"," ","k","o","s","t","e","r"," ","p","r","o","s","j","e","k","t","e","t","?",Quote," ",Newline,Bullet," ","T","i","d","s","s","p","ø","r","s","m","å","l",":"," ",Quote,"H","v","o","r"," ","l","a","n","g"," ","t","i","d"," ","t","a","r"," ","i","m","p","l","e","m","e","n","t","e","r","i","n","g","?",Quote,Newline,Bullet," ","K","o","m","p","e","t","a","n","s","e",":"," ",Quote,"H","v","e","m"," ","e","r"," ","e","k","s","p","e","r","t"," ","p","å"," ","s","i","g","n","a","l","s","y","s","t","e","m","e","r","?",Quote,Newline,Bullet," ","P","r","o","s","j","e","k","t","i","n","f","o",":"," ",Quote,"F","o","r","t","e","l","l"," ","o","m"," ","F","l","y","t","o","g","e","t","-","o","p","p","d","r","a","g","e","t",Quote,Newline,Newline,"*","*","T","i","p","s"," ","f","o","r"," ","b","e","d","r","e"," ","s","v","a","r",":","*","*",Newline,Bullet," ","V","æ","r"," ","s","p","e","s","i","f","i","k","k"," ","i"," ","s","p","ø","r","s","m","å","l","e","n","e"," ","d","i","n","e",Newline,Bullet," ","B","r","u","k"," ","f","a","g","t","e","r","m","e","r"," ","j","e","g"," ","k","j","e","n","n","e","r"," ","t","i","l"," "," ",Newline,Bullet," ","S","p","ø","r"," ","o","p","p","f","ø","l","g","i","n","g","s","s","p","ø","r","s","m","å","l"," ","f","o","r"," ","m","e","r"," ","d","e","t","a","l","j","e","r",Newline,Newline,"P","r","ø","v"," ","å"," ","s","p","ø","r","r","e"," ","o","m"," ","n","o","e"," ","-"," ","j","e","g"," ","l","æ","r","e","r"," ","f","r","a"," ","d","o","k","u","m","e","n","t","e","n","e"," ","d","i","n","e","!">>]

\* handle_single_word
single_word_texts ==
  [found_before |->
     <<"A","n","g","å","e","n","d","e"," ","'">>,
   found_mid |->
     <<"'",":"," ">>,
   found_after |->
     <<"."," ","Ø","n","s","k","e","r"," ","d","u"," ","m","e","r"," ","i","n","f","o","r","m","a","s","j","o","n","?">>,
   prompt_before |->
     <<"D","u"," ","s","k","r","e","v"," ","'">>,
   prompt_after |->
     <<"'","."," ","K","a","n"," ","d","u"," ","u","t","d","y","p","e"," ","h","v","a"," ","d","u"," ","v","i","l"," ","v","i","t","e"," ","o","m"," ","d","e","t","t","e",","," ","e","l","l","e","r"," ","s","t","i","l","l"," ","e","t"," ","m","e","r"," ","s","p","e","s","i","f","i","k","t"," ","s","p","ø","r","s","m","å","l","?">>,
   keyword_before |->
     <<"D","u"," ","s","p","ø","r"," ","o","m"," ">>,
   keyword_after |->
     <<"."," ","H","v","a"," ","s","p","e","s","i","f","i","k","t"," ","v","i","l"," ","d","u"," ","v","i","t","e","?"," ","F","o","r"," ","e","k","s","e","m","p","e","l",":"," ","k","o","s","t","n","a","d","e","r",","," ","i","m","p","l","e","m","e","n","t","e","r","i","n","g",","," ","e","l","l","e","r"," ","t","e","k","n","i","s","k","e"," ","d","e","t","a","l","j","e","r","?">>]

\* generate_intelligent_fallback
fallback_texts ==
  [none |->
     <<"J","e","g"," ","h","a","r"," ","i","n","g","e","n"," ","d","o","k","u","m","e","n","t","e","r"," ","å"," ","s","v","a","r","e"," ","b","a","s","e","r","t"," ","p","å"," ","e","n","n","å","."," ",Newline," "," "," "," "," "," "," "," "," "," "," "," ",Newline,"L","e","g","g"," ","t","i","l"," ","d","o","k","u","m","e","n","t","e","r"," ","v","i","a"," ","d","o","c","u","m","e","n","t"," ","m","a","n","a","g","e","r",","," ","s","å"," ","k","a","n"," ","j","e","g"," ","h","j","e","l","p","e"," ","d","e","g"," ","m","e","d"," ","j","e","r","n","b","a","n","e","r","e","l","a","t","e","r","t","e"," ","s","p","ø","r","s","m","å","l","!">>,
   etcs_before |->
     <<"J","e","g"," ","s","e","r"," ","d","u"," ","s","p","ø","r"," ","o","m"," ","E","T","C","S","/","E","R","T","M","S",","," ","m","e","n"," ","f","a","n","t"," ","i","k","k","e"," ","s","p","e","s","i","f","i","k","k"," ","i","n","f","o","r","m","a","s","j","o","n"," ","i"," ","d","e"," ">>,
   etcs_after |->
     <<" ","d","o","k","u","m","e","n","t","e","n","e","."," ","L","e","g","g"," ","g","j","e","r","n","e"," ","t","i","l"," ","m","e","r"," ","t","e","k","n","i","s","k"," ","d","o","k","u","m","e","n","t","a","s","j","o","n"," ","o","m"," ","s","i","g","n","a","l","s","y","s","t","e","m","e","r",".">>,
   cost |->
     <<"D","u"," ","s","p","ø","r"," ","o","m"," ","k","o","s","t","n","a","d","e","r",","," ","m","e","n"," ","j","e","g"," ","f","a","n","t"," ","i","k","k","e"," ","p","r","i","s","o","p","p","l","y","s","n","i","n","g","e","r"," ","i"," ","d","o","k","u","m","e","n","t","e","n","e","."," ","H","a","r"," ","d","u"," ","b","u","d","s","j","e","t","t","-"," ","e","l","l","e","r"," ","k","o","s","t","n","a","d","s","d","o","k","u","m","e","n","t","e","r"," ","d","u"," ","k","a","n"," ","l","e","g","g","e"," ","t","i","l","?">>,
   rams_before |->
     <<"R","A","M","S"," ","o","g"," ","s","i","k","k","e","r","h","e","t"," ","e","r"," ","v","i","k","t","i","g","e"," ","t","e","m","a","."," ","J","e","g"," ","h","a","r"," ">>,
   rams_after |->
     <<" ","d","o","k","u","m","e","n","t","e","r",","," ","m","e","n"," ","f","a","n","t"," ","i","k","k","e"," ","s","v","a","r"," ","p","å"," ","d","i","t","t"," ","s","p","e","s","i","f","i","k","k","e"," ","s","p","ø","r","s","m","å","l","."," ","P","r","ø","v"," ","å"," ","v","æ","r","e"," ","m","e","r"," ","s","p","e","s","i","f","i","k","k"," ","e","l","l","e","r"," ","l","e","g","g"," ","t","i","l"," ","f","l","e","r","e"," ","t","e","k","n","i","s","k","e"," ","d","o","k","u","m","e","n","t","e","r",".">>,
   generic_before |->
     <<"J","e","g"," ","f","o","r","s","t","å","r"," ","s","p","ø","r","s","m","å","l","e","t"," ","d","i","t","t",","," ","m","e","n"," ","f","a","n","t"," ","i","k","k","e"," ","s","v","a","r"," ","i"," ","d","e"," ">>,
   generic_after |->
     <<" ","d","o","k","u","m","e","n","t","e","n","e","."," ","P","r","ø","v"," ","å"," ","o","m","f","o","r","m","u","l","e","r","e"," ","s","p","ø","r","s","m","å","l","e","t"," ","e","l","l","e","r"," ","l","e","g","g"," ","t","i","l"," ","m","e","r"," ","r","e","l","e","v","a","n","t"," ","d","o","k","u","m","e","n","t","a","s","j","o","n",".">>]

\* lines 392-408
assembly_texts ==
  [no_clear_content |->
     <<"J","e","g"," ","f","a","n","t"," ","r","e","l","e","v","a","n","t","e"," ","d","o","k","u","m","e","n","t","e","r",","," ","m","e","n"," ","i","k","k","e"," ","k","l","a","r","t"," ","i","n","n","h","o","l","d"," ","s","o","m"," ","s","v","a","r","e","r"," ","p","å"," ","s","p","ø","r","s","m","å","l","e","t"," ","d","i","t","t","."," ","K","a","n"," ","d","u"," ","v","æ","r","e"," ","m","e","r"," ","s","p","e","s","i","f","i","k","k","?">>,
   colon |->
     <<":"," ">>,
   more |->
     <<" ","Ø","n","s","k","e","r"," ","d","u"," ","m","e","r"," ","d","e","t","a","l","j","e","r","t"," ","i","n","f","o","r","m","a","s","j","o","n","?">>,
   medium_before |->
     <<"B","a","s","e","r","t"," ","p","å"," ","m","i","n"," ","k","u","n","n","s","k","a","p","s","b","a","s","e",":"," ">>,
   medium_after |->
     <<".">>,
   low_before |->
     <<"J","e","g"," ","f","a","n","t"," ","n","o","e"," ","r","e","l","e","v","a","n","t"," ","i","n","f","o","r","m","a","s","j","o","n",":"," ">>,
   low_after |->
     <<" ","K","a","n"," ","d","u"," ","o","m","f","o","r","m","u","l","e","r","e"," ","s","p","ø","r","s","m","å","l","e","t","?">>]

\* line 395
intro_phrases ==
  << <<"B","a","s","e","r","t"," ","p","å"," ","m","i","n"," ","k","u","n","n","s","k","a","p","s","b","a","s","e">>,
     <<"D","o","k","u","m","e","n","t","a","s","j","o","n"," ","v","i","s","e","r"," ","a","t">>,
     <<"A","n","g","å","e","n","d","e"," ","d","i","t","t"," ","s","p","ø","r","s","m","å","l">>,
     <<"J","e","g"," ","f","a","n","t"," ","f","ø","l","g","e","n","d","e"," ","i","n","f","o","r","m","a","s","j","o","n">> >>

\* ContextualRailAdviceAI.generate_smart_response
farewell_texts ==
  [all |->
     <<"T","a","k","k"," ","f","o","r"," ","p","r","a","t","e","n","!"," ","T","a"," ","k","o","n","t","a","k","t"," ","i","g","j","e","n"," ","n","å","r"," ","d","u"," ","t","r","e","n","g","e","r"," ","h","j","e","l","p"," ","m","e","d"," ","j","e","r","n","b","a","n","e","p","r","o","s","j","e","k","t","e","r",".">>]

\* The characters of a display name of handle_single_word
NameChars ==
  << [name |-> "tekniske løsninger", chars |-> <<"t","e","k","n","i","s","k","e"," ","l","ø","s","n","i","n","g","e","r">>],
     [name |-> "kostnader og økonomi", chars |-> <<"k","o","s","t","n","a","d","e","r"," ","o","g"," ","ø","k","o","n","o","m","i">>],
     [name |-> "tidsplaner og fremdrift", chars |-> <<"t","i","d","s","p","l","a","n","e","r"," ","o","g"," ","f","r","e","m","d","r","i","f","t">>],
     [name |-> "personer og kompetanse", chars |-> <<"p","e","r","s","o","n","e","r"," ","o","g"," ","k","o","m","p","e","t","a","n","s","e">>],
     [name |-> "prosjekter og oppdrag", chars |-> <<"p","r","o","s","j","e","k","t","e","r"," ","o","g"," ","o","p","p","d","r","a","g">>],
     [name |-> "RailAdvice og våre tjenester", chars |-> <<"R","a","i","l","A","d","v","i","c","e"," ","o","g"," ","v","å","r","e"," ","t","j","e","n","e","s","t","e","r">>],
     [name |-> "erfaring og ekspertise", chars |-> <<"e","r","f","a","r","i","n","g"," ","o","g"," ","e","k","s","p","e","r","t","i","s","e">>] >>

content_open ==
  <<"G","S","M","-","R"," ","b","r","u","k","e","s"," ","t","i","l"," ","t","a","l","e"," ","m","e","l","l","o","m"," ","f","ø","r","e","r"," ","o","g"," ","t","o","g","l","e","d","e","r">>

\* str(n) of a natural number
RECURSIVE Str(_)
Str(n) ==
  LET digit == <<"0", "1", "2", "3", "4", "5", "6", "7", "8", "9">>
  IN  IF n < 10 THEN <<digit[n + 1]>>
      ELSE Str(n \div 10) \o <<digit[(n % 10) + 1]>>

\* " ".join(parts)
RECURSIVE Join(_, _)
Join(parts, i) ==
  IF i > Len(parts) THEN <<>>
  ELSE IF i = Len(parts) THEN parts[i]
  ELSE parts[i] \o <<" ">> \o Join(parts, i + 1)

NameOf(arg) ==
  IF \E i \in 1..Len(NameChars) : NameChars[i].name = arg
  THEN NameChars[CHOOSE i \in 1..Len(NameChars) : NameChars[i].name = arg].chars
  ELSE <<arg>>

\* The response as it stands, nothing appended.
Unterminated(response) == response

\* lines 411-413: a period is appended when the response does not end in
\* terminal punctuation.
Terminate(response) ==
  IF response # <<>> /\ IsSentenceEnd(response[Len(response)]) THEN response
  ELSE Append(response, ".")

\* lines 410-415
CleanUp(response) == Terminate(Strip(CollapseSpace(response, 1)))

\* lines 397-408: the response assembled from the parts, by confidence.
Assemble(a, intro) ==
  IF a.tpl \in {"high", "high_more"}
  THEN intro \o assembly_texts.colon \o Join(a.parts, 1)
       \o (IF Len(a.parts) > 1 THEN assembly_texts.more ELSE <<>>)
  ELSE IF a.tpl = "medium"
  THEN assembly_texts.medium_before \o Join(a.parts, 1)
       \o assembly_texts.medium_after
  ELSE assembly_texts.low_before \o Join(a.parts, 1) \o assembly_texts.low_after

\* The string an answer stands for; intro is the opening phrase drawn at
\* line 396.
Render(a, intro) ==
  CASE a.tpl = "greeting_no_documents" -> greeting_texts.none
    [] a.tpl = "greeting" ->
         greeting_texts.before \o Str(a.n) \o greeting_texts.after
    [] a.tpl = "identity_no_documents" -> identity_texts.none
    [] a.tpl = "identity" ->
         identity_texts.before \o Str(a.n) \o identity_texts.after
    [] a.tpl = "help" -> help_texts.all
    [] a.tpl = "farewell" -> farewell_texts.all
    [] a.tpl = "single_word_prompt" ->
         single_word_texts.prompt_before \o a.parts[1]
         \o single_word_texts.prompt_after
    [] a.tpl = "single_word_found" ->
         single_word_texts.found_before \o a.parts[1]
         \o single_word_texts.found_mid \o a.parts[2]
         \o single_word_texts.found_after
    [] a.tpl = "single_keyword_prompt" ->
         single_word_texts.keyword_before \o NameOf(a.arg)
         \o single_word_texts.keyword_after
    [] a.tpl = "fallback_no_documents" -> fallback_texts.none
    [] a.tpl = "fallback_etcs" ->
         fallback_texts.etcs_before \o Str(a.n) \o fallback_texts.etcs_after
    [] a.tpl = "fallback_cost" -> fallback_texts.cost
    [] a.tpl = "fallback_rams" ->
         fallback_texts.rams_before \o Str(a.n) \o fallback_texts.rams_after
    [] a.tpl = "fallback_generic" ->
         fallback_texts.generic_before \o Str(a.n)
         \o fallback_texts.generic_after
    [] a.tpl = "no_clear_content" -> assembly_texts.no_clear_content
    [] a.tpl \in {"high", "high_more", "medium", "low"} ->
         CleanUp(Assemble(a, intro))
    [] OTHER -> <<>>

(***************************************************************************)
(* generate_smart_response on its own                                      *)
(***************************************************************************)

\* The keyword categories of the labels tried
RespondCategories == {"teknologi", "kostnad"}

\* The labels classify_input_type returns
InputTypes ==
  {Label(k) : k \in {"greeting", "identity", "help", "farewell", "single_word",
                     "question", "statement"}}
  \cup {[kind |-> "single_keyword", category |-> c] : c \in RespondCategories}

RespondQuestions == {t_ok, t_etcs, t_hva_koster}

RespondDocs ==
  {<<>>, <<content_etcs>>, <<content_open>>, <<content_etcs, content_open>>}

ConfidenceLabels == {"High", "Medium", "Low"}

\* What can go wrong in one call: the lookup of a single word, or the
\* assembly of the response.
RespondEnvs(input_type) ==
  IF input_type.kind = "single_word"
  THEN {Env(f, d, "unchanged") :
          f \in FaultSets(ComponentFaults({"single_word_encode",
                                           "single_word_query"})),
          d \in [1..Len(chroma.entries) -> Distances]}
  ELSE {Env(f, Nominal(Len(chroma.entries)), "unchanged") :
          f \in FaultSets(ComponentFaults({"generator"}))}

RespondInit == Init /\ chroma = NoCollection

\* One call of generate_smart_response of the engine at hand; the opening
\* phrase is drawn at random (line 396).
Respond(question, docs, confidence, input_type) ==
  /\ ai.alive
  /\ last.op # "respond"
  /\ \E env \in RespondEnvs(input_type) :
       \E r \in {IF ai.variant = "contextual"
                 THEN contextual_generate_smart_response(ai, chroma, question,
                        docs, confidence, input_type, env)
                 ELSE generate_smart_response(ai, chroma, question, docs,
                        confidence, input_type, env)} :
         \E k \in 1..Len(intro_phrases) :
           last' = [op |-> "respond", question |-> question, docs |-> docs,
                    confidence |-> confidence, input_type |-> input_type,
                    raised |-> r.raised, answer |-> r.answer,
                    text |-> IF r.raised THEN <<>>
                             ELSE Render(r.answer, intro_phrases[k])]
  /\ UNCHANGED <<app_state, workers, ai, loader, chroma, disk, conversation_history, memory_file,
                 asked, manager, book, ranking, calls>>

RespondNext ==
  \/ \E variant \in {"base", "contextual"}, lazy \in BOOLEAN :
       Construct(variant, lazy)
  \/ \E question \in RespondQuestions, docs \in RespondDocs,
        confidence \in ConfidenceLabels, input_type \in InputTypes :
       Respond(question, docs, confidence, input_type)

SpecRespond == RespondInit /\ [][RespondNext]_vars

(***************************************************************************)
(* Claims about the response generator                                     *)
(***************************************************************************)

\* C15: for every question, document list, confidence label and input type
\* of the classifier, the string generate_smart_response returns is not
\* empty and its last character is '.', '!' or '?'.
C15_EndsInPunctuation ==
  (last.op = "respond" /\ ~last.raised) =>
    /\ last.text # <<>>
    /\ IsSentenceEnd(last.text[Len(last.text)])

\* A period was appended: the one sentence of the document ends without
\* punctuation and the answer of high confidence ends in a period.
C15_Witness ==
  /\ last.op = "respond" /\ ~last.raised
  /\ last.answer.tpl = "high"
  /\ last.docs = <<content_open>>
  /\ last.answer.parts = <<content_open>>
  /\ EndsWithChar(last.text, ".")

(***************************************************************************)
(* Writers in worker threads (src/src/document_manager.py under            *)
(* run_in_executor of src/src/api.py)                                      *)
(***************************************************************************)

\* The documents posted at the same time; doc_type is left at its default.
Posted == << Shelf[1], [Shelf[2] EXCEPT !.type = "general"] >>

\* One worker thread per document posted; each runs add_document of the one
\* manager of the application.
Writers == 1..Len(Posted)

\* The keys a document goes under in the search index, in the order of
\* lines 93-105.
SearchKeys(doc) ==
  << [dict |-> "by_type", k |-> doc.type],
     [dict |-> "by_category", k |-> doc.category] >>
  \o [i \in 1..Len(doc.tags) |-> [dict |-> "by_tags", k |-> doc.tags[i]]]

\* A thread at the start of add_document(doc): pc is the statement it is
\* at, j the key of update_search_index it is at, absent the outcome of its
\* last test "key not in dict", seen what it had in front of it when its
\* dump began.
Worker(doc) ==
  [pc |-> "content", doc |-> doc, j |-> 1, absent |-> FALSE, seen |-> <<>>]

\* dict[k] = []
PutEmpty(buckets, k) ==
  IF BucketPos(buckets, k) = 0 THEN Append(buckets, [k |-> k, ids |-> <<>>])
  ELSE [buckets EXCEPT ![BucketPos(buckets, k)].ids = <<>>]

\* dict[k].append(doc_id) unless it is there
AppendUnder(buckets, k, doc_id) ==
  LET p == BucketPos(buckets, k)
  IN  IF doc_id \in Range(buckets[p].ids) THEN buckets
      ELSE [buckets EXCEPT ![p].ids = Append(@, doc_id)]

DictOf(si, dict) ==
  IF dict = "by_type" THEN si.by_type
  ELSE IF dict = "by_category" THEN si.by_category ELSE si.by_tags

WithDict(si, dict, buckets) ==
  IF dict = "by_type" THEN [si EXCEPT !.by_type = buckets]
  ELSE IF dict = "by_category" THEN [si EXCEPT !.by_category = buckets]
  ELSE [si EXCEPT !.by_tags = buckets]

\* The number of keys of each dict that json.dump iterates
DictSizes(si) == <<Len(si.by_type), Len(si.by_category), Len(si.by_tags)>>

ThreadsInit ==
  /\ Idle
  /\ chroma = NoCollection
  /\ disk \in {StoreOf(0).d, StoreOf(1).d}
  /\ memory_file = NoFile
  /\ manager = ManagerOf(disk)
  /\ book = <<>>
  /\ ranking = NoRanking
  /\ workers = [lock |-> 0, t |-> [u \in Writers |-> Worker(Posted[u])]]
  /\ app_state = NoAppState

Frame == UNCHANGED <<app_state, ai, loader, chroma, conversation_history, memory_file,
                     last, calls, asked, book, ranking>>

\* lines 141-142: the content file is written
WriteContent(u) ==
  LET w == workers.t[u]
  IN  /\ w.pc = "content"
      /\ disk' = [disk EXCEPT !.content =
                    WriteFile(@, [name |-> w.doc.id, id |-> w.doc.id,
                                  title |-> json_dump_str(w.doc.title),
                                  content |-> json_dump_str(w.doc.content)])]
      /\ workers' = [workers EXCEPT !.t[u].pc = "index"]
      /\ UNCHANGED manager
      /\ Frame

\* line 144: self.index["documents"][doc_id] = document_data
InsertIndex(u) ==
  LET w == workers.t[u]
      document_data ==
        [key |-> w.doc.id, id |-> w.doc.id, title |-> w.doc.title,
         type |-> w.doc.type, category |-> w.doc.category,
         tags |-> w.doc.tags, file_path |-> w.doc.id]
  IN  /\ w.pc = "index"
      /\ manager' = [manager EXCEPT !.index = Append(@, document_data)]
      /\ workers' = [workers EXCEPT !.t[u].pc = "test", !.t[u].j = 1]
      /\ UNCHANGED disk
      /\ Frame

\* lines 93, 98, 104: if key not in self.search_index[dict]
TestKey(u) ==
  LET w == workers.t[u]
      key == SearchKeys(w.doc)[w.j]
  IN  /\ w.pc = "test"
      /\ workers' = [workers EXCEPT
                       !.t[u].pc = "create",
                       !.t[u].absent =
                         (BucketPos(DictOf(manager.search_index, key.dict),
                                    key.k) = 0)]
      /\ UNCHANGED <<manager, disk>>
      /\ Frame

\* lines 94, 99, 105: self.search_index[dict][key] = [] when the test said so
CreateKey(u) ==
  LET w == workers.t[u]
      key == SearchKeys(w.doc)[w.j]
  IN  /\ w.pc = "create"
      /\ manager' =
           IF w.absent
           THEN [manager EXCEPT !.search_index =
                   WithDict(@, key.dict, PutEmpty(DictOf(@, key.dict), key.k))]
           ELSE manager
      /\ workers' = [workers EXCEPT !.t[u].pc = "append"]
      /\ UNCHANGED disk
      /\ Frame

\* lines 95-96, 100-101, 106-107: the id is appended, then the next key or
\* save_index
AppendId(u) ==
  LET w == workers.t[u]
      key == SearchKeys(w.doc)[w.j]
  IN  /\ w.pc = "append"
      /\ manager' = [manager EXCEPT !.search_index =
                       WithDict(@, key.dict,
                                AppendUnder(DictOf(@, key.dict), key.k, w.doc.id))]
      /\ workers' = IF w.j < Len(SearchKeys(w.doc))
                    THEN [workers EXCEPT !.t[u].pc = "test", !.t[u].j = w.j + 1]
                    ELSE [workers EXCEPT !.t[u].pc = "save_index"]
      /\ UNCHANGED disk
      /\ Frame

\* save_index, line 61: the lock is taken and the dump begins
LockForIndex(u) ==
  LET w == workers.t[u]
  IN  /\ w.pc = "save_index"
      /\ workers.lock = 0
      /\ workers' = [workers EXCEPT !.lock = u, !.t[u].pc = "dump_index",
                                    !.t[u].seen = manager.index]
      /\ UNCHANGED <<manager, disk>>
      /\ Frame

\* save_index, lines 63-64: json.dump walks the dict of documents and writes;
\* the lock is released on the way out.  When the dict grew under the walk
\* the dump either took the new entries along or raises RuntimeError
\* (dictionary changed size during iteration), with part of the file
\* written, and add_document ends there.
DumpIndex(u) ==
  LET w == workers.t[u]
  IN  /\ w.pc = "dump_index"
      /\ \/ /\ disk' = [disk EXCEPT !.index_file = manager.index]
            /\ workers' = [workers EXCEPT !.lock = 0, !.t[u].pc = "save_search"]
         \/ /\ Len(manager.index) # Len(w.seen)
            /\ \E n \in 0..Len(w.seen) :
                 disk' = [disk EXCEPT !.index_file = Take(w.seen, n)]
            /\ workers' = [workers EXCEPT !.lock = 0, !.t[u].pc = "raised"]
      /\ UNCHANGED manager
      /\ Frame

\* save_search_index, line 67
LockForSearch(u) ==
  LET w == workers.t[u]
  IN  /\ w.pc = "save_search"
      /\ workers.lock = 0
      /\ workers' = [workers EXCEPT !.lock = u, !.t[u].pc = "dump_search",
                                    !.t[u].seen = manager.search_index]
      /\ UNCHANGED <<manager, disk>>
      /\ Frame

\* save_search_index, lines 68-69: as DumpIndex; a list that grew under the
\* walk is written with or without the new id.
DumpSearch(u) ==
  LET w == workers.t[u]
  IN  /\ w.pc = "dump_search"
      /\ \/ /\ \E si \in {manager.search_index, w.seen} :
                 disk' = [disk EXCEPT !.search_index_file = si]
            /\ workers' = [workers EXCEPT !.lock = 0, !.t[u].pc = "done"]
         \/ /\ DictSizes(manager.search_index) # DictSizes(w.seen)
            /\ disk' = [disk EXCEPT !.search_index_file = EmptySearchIndex]
            /\ workers' = [workers EXCEPT !.lock = 0, !.t[u].pc = "raised"]
      /\ UNCHANGED manager
      /\ Frame

ThreadsNext ==
  \E u \in Writers :
    \/ WriteContent(u)
    \/ InsertIndex(u)
    \/ TestKey(u)
    \/ CreateKey(u)
    \/ AppendId(u)
    \/ LockForIndex(u)
    \/ DumpIndex(u)
    \/ LockForSearch(u)
    \/ DumpSearch(u)

SpecThreads == ThreadsInit /\ [][ThreadsNext]_vars

(***************************************************************************)
(* Claims about concurrent writers                                         *)
(***************************************************************************)

\* No step changes the in-memory index while a thread is writing it to the
\* index file.
IndexStableUnderDump ==
  (\E u \in Writers : workers.t[u].pc = "dump_index")
    => manager'.index = manager.index

\* Once all writers have finished, the persisted index and search index hold
\* every document whose add_document returned.
AllWritesPersisted ==
  (\A u \in Writers : workers.t[u].pc \in {"done", "raised"}) =>
    \A u \in Writers :
      workers.t[u].pc = "done" =>
        LET doc == workers.t[u].doc
        IN  /\ HasKey(disk.index_file, doc.id)
            /\ \A i \in 1..Len(SearchKeys(doc)) :
                 LET key == SearchKeys(doc)[i]
                     buckets == DictOf(disk.search_index_file, key.dict)
                 IN  /\ BucketPos(buckets, key.k) # 0
                     /\ doc.id \in Range(buckets[BucketPos(buckets, key.k)].ids)

\* C16: concurrent writers to one manager are serialized: no thread mutates
\* the in-memory index while another writes it to the index file, and once
\* all writers have finished the persisted index and search index contain
\* the effect of every completed write.
C16_WritersSerialized ==
  [][IndexStableUnderDump]_vars /\ []AllWritesPersisted

(***************************************************************************)
(* classify_input_type on its own                                          *)
(***************************************************************************)

RECURSIVE AllKeywords(_)
AllKeywords(c) ==
  IF c > Len(keyword_patterns) THEN {}
  ELSE Range(keyword_patterns[c].keywords) \cup AllKeywords(c + 1)

\* The inputs classified: every greeting word and keyword of the engine,
\* farewells, other words, other spellings, and texts of several tokens.
ClassifyTexts ==
  Range(greeting_words) \cup AllKeywords(1)
  \cup {t_hade, t_bye, t_farvel, t_snakkes, t_hade_excl, t_ok, t_hjelp, t_HI,
        t_Hei, t_hei_sp, t_ETCS, t_Kompetanse, t_takk, t_hvem_er_du,
        t_god_morgen, t_hei_hvem, t_hvem_hjelp, t_ha_det_hei, t_hei_hjelp,
        t_hva_kan_du, t_hva_koster, t_signal_stmt, t_level2}

ClassifyInit ==
  /\ Idle
  /\ chroma = NoCollection
  /\ disk = StoreOf(0).d
  /\ memory_file = NoFile
  /\ manager = EmptyManager
  /\ book = <<>>
  /\ ranking = NoRanking
  /\ workers = NoWorkers
  /\ app_state = NoAppState

\* One call of classify_input_type of an engine of the variant.
Classify(variant, text) ==
  /\ last.op = "none"
  /\ last' = [op |-> "classify", variant |-> variant, question |-> text,
              input_type |-> classify_for(variant, text)]
  /\ UNCHANGED <<app_state, ai, loader, chroma, disk, conversation_history, memory_file,
                 calls, asked, manager, book, ranking, workers>>

ClassifyNext ==
  \E variant \in {"base", "contextual"}, text \in ClassifyTexts :
    Classify(variant, text)

SpecClassify == ClassifyInit /\ [][ClassifyNext]_vars

(***************************************************************************)
(* Claims about the classifier                                             *)
(***************************************************************************)

\* The label the rule of the single token gives: greeting for a greeting
\* word, else the first category in declared order that lists the word, else
\* single_word.
SingleTokenLabel(word) ==
  IF InSeq(word, greeting_words) THEN Label("greeting")
  ELSE IF \E c \in 1..Len(keyword_patterns) :
            InSeq(word, keyword_patterns[c].keywords)
  THEN [kind |-> "single_keyword",
        category |->
          keyword_patterns[CHOOSE c \in 1..Len(keyword_patterns) :
             /\ InSeq(word, keyword_patterns[c].keywords)
             /\ \A d \in 1..(c - 1) :
                  ~InSeq(word, keyword_patterns[d].keywords)].category]
  ELSE Label("single_word")

ClassifiedToken ==
  last.op = "classify" /\ Len(Split(last.question)) = 1

\* C17: a single whitespace-delimited token is labelled greeting,
\* single_keyword_<category> or single_word by the rule of the single token,
\* in the base and in the memory-augmented variant alike, and so never
\* farewell, identity, help, question or statement.
C17_SingleTokenInBothVariants ==
  ClassifiedToken =>
    last.input_type = SingleTokenLabel(Strip(Lower(last.question)))

\* C17 as the classifiers have it: the memory-augmented variant labels a
\* token in which a farewell pattern matches farewell; every other token, and
\* every token in the base variant, gets the label of the rule of the single
\* token.
C17_SingleToken ==
  ClassifiedToken =>
    LET word == Strip(Lower(last.question))
    IN  IF last.variant = "contextual" /\ AnySearch(farewell_patterns, word)
        THEN last.input_type = Label("farewell")
        ELSE last.input_type = SingleTokenLabel(word)

\* The memory-augmented variant was given "hade" and said farewell; the base
\* variant says single_word of the same token.
C17_Witness ==
  /\ ClassifiedToken
  /\ last.variant = "contextual"
  /\ last.question = t_hade
  /\ last.input_type = Label("farewell")
  /\ classify_for("base", t_hade) = Label("single_word")

ClassifiedText ==
  last.op = "classify" /\ Len(Split(last.question)) >= 2

\* The first of greeting, identity, help whose patterns match the text, and
\* question or statement when none does.
FirstMatching(text) ==
  LET text_lower == Strip(Lower(text))
      Matches(patterns) ==
        \E p \in 1..Len(patterns) : Search(patterns[p], text_lower)
  IN  IF Matches(greeting_patterns) THEN "greeting"
      ELSE IF Matches(identity_patterns) THEN "identity"
      ELSE IF Matches(help_patterns) THEN "help"
      ELSE IF \/ EndsWithChar(Strip(text), "?")
              \/ \E q \in 1..Len(question_starters) :
                   StartsWith(text_lower, question_starters[q])
      THEN "question"
      ELSE "statement"

\* C22: an input of two or more tokens gets the first label, in the order
\* farewell (memory-augmented variant only), greeting, identity, help, whose
\* patterns match the lower-cased text, and question or statement only when
\* none matches; the label is one of the fixed set.
C22_FirstMatchingLabel ==
  /\ last.op = "classify" =>
       last.input_type.kind
         \in {"farewell", "greeting", "identity", "help", "single_keyword",
              "single_word", "question", "statement"}
  /\ ClassifiedText =>
    /\ last.input_type.category = ""
    /\ last.input_type.kind =
         IF /\ last.variant = "contextual"
            /\ \E p \in 1..Len(farewell_patterns) :
                 Search(farewell_patterns[p], Strip(Lower(last.question)))
         THEN "farewell"
         ELSE FirstMatching(last.question)

\* "ha det hei" matches a farewell and a greeting pattern: the engine with
\* memory says farewell, the base engine greeting.
C22_Witness ==
  /\ ClassifiedText
  /\ last.variant = "contextual"
  /\ last.question = t_ha_det_hei
  /\ last.input_type = Label("farewell")
  /\ FirstMatching(t_ha_det_hei) = "greeting"

(***************************************************************************)
(* extract_keywords_and_intent and find_best_response called on their own  *)
(***************************************************************************)

\* One call of extract_keywords_and_intent
Extract(text) ==
  /\ ai.alive /\ calls.query < MaxCalls
  /\ \E env \in InitEnvs :
       \E r \in {extract_on_engine(ai, loader, chroma, disk, text, env)} :
         /\ ai' = r.st.ai
         /\ loader' = r.st.loader
         /\ chroma' = r.st.chroma
         /\ last' = [NoCall EXCEPT !.op = "extract", !.question = text,
                                   !.raised = r.raised, !.before = ai,
                                   !.failing = env.failing]
  /\ calls' = [calls EXCEPT !.query = @ + 1]
  /\ UNCHANGED <<app_state, workers, disk, conversation_history, memory_file, asked,
                 manager, book, ranking>>

ExtractNext ==
  \/ \E variant \in {"base", "contextual"}, lazy \in BOOLEAN :
       Construct(variant, lazy)
  \/ \E text \in Questions : Extract(text)
  \/ \E text \in Questions : FindBest(text)

SpecExtract == Init /\ [][ExtractNext]_vars

(***************************************************************************)
(* Claims about the calls that only read                                   *)
(***************************************************************************)

\* The step is a call of extract_keywords_and_intent or find_best_response.
ReadingCall ==
  /\ calls'.query = calls.query + 1
  /\ last'.op \in {"extract", "find"}

\* C20: extract_keywords_and_intent and find_best_response are read-only: a
\* call leaves documents_text, documents_metadata, the collection and the
\* initialization flag as they were, for every text and every engine state.
C20_ReadOnly ==
  [][ReadingCall =>
       /\ ai'.documents_text = ai.documents_text
       /\ ai'.documents_metadata = ai.documents_metadata
       /\ ai'.initialized = ai.initialized
       /\ chroma' = chroma]_vars

\* The part of C20 about find_best_response alone
FindBestReadsOnly ==
  [][(calls'.query = calls.query + 1 /\ last'.op = "find") =>
       /\ ai'.documents_text = ai.documents_text
       /\ ai'.documents_metadata = ai.documents_metadata
       /\ ai'.initialized = ai.initialized
       /\ chroma' = chroma]_vars

(***************************************************************************)
(* specific_terms of extract_keywords_and_intent on its own                *)
(***************************************************************************)

\* The metadata of the documents an engine can have loaded: a tag may be
\* written in capitals.
TermsMetadata ==
  { [title |-> title_etcs, tags |-> <<tag_etcs>>],
    [title |-> title_etcs, tags |-> <<tag_ETCS>>],
    [title |-> title_signal, tags |-> <<tag_signal>>],
    [title |-> title_radio, tags |-> <<>>] }

TermsLoaded ==
  {<<>>} \cup {<<a>> : a \in TermsMetadata}
  \cup {<<a, b>> : a \in TermsMetadata, b \in TermsMetadata}

TermsTexts ==
  {t_hva_er_etcs, t_level2, t_signal_stmt, t_etcs, t_ETCS, t_ok}

\* One call: the list of lines 577-589 and what list(set(...)) makes of it.
Terms(documents_metadata, text) ==
  /\ last.op = "none"
  /\ \E specific_terms \in
          ListsOfSet(TermsList(documents_metadata, Lower(text), 1)) :
       last' = [op |-> "terms", question |-> text,
                documents_metadata |-> documents_metadata,
                specific_terms |-> specific_terms]
  /\ UNCHANGED <<app_state, ai, loader, chroma, disk, conversation_history, memory_file,
                 calls, asked, manager, book, ranking, workers>>

TermsNext ==
  \E documents_metadata \in TermsLoaded, text \in TermsTexts :
    Terms(documents_metadata, text)

SpecTerms == ClassifyInit /\ [][TermsNext]_vars

(***************************************************************************)
(* Claims about specific_terms                                             *)
(***************************************************************************)

\* The list and the set of the engine's analysis hold the same terms.
TermsAgree ==
  last.op = "terms" =>
    Range(last.specific_terms)
      = SpecificTerms(last.documents_metadata, Lower(last.question))

\* C21: specific_terms has no duplicates, and every element occurs verbatim
\* in the lower-cased input text and is a word longer than 3 characters of
\* the title of a loaded document or one of its tags.
C21_TermsFromTextAndDocuments ==
  last.op = "terms" =>
    LET terms == last.specific_terms
        metas == last.documents_metadata
    IN  /\ \A i, j \in 1..Len(terms) : terms[i] = terms[j] => i = j
        /\ \A i \in 1..Len(terms) :
             /\ Contains(Lower(last.question), terms[i])
             /\ \E d \in 1..Len(metas) :
                  \/ /\ Len(terms[i]) > 3
                     /\ terms[i] \in Range(Split(metas[d].title))
                                     \cup Range(Split(Lower(metas[d].title)))
                  \/ terms[i] \in Range(metas[d].tags)

(***************************************************************************)
(* A chat query and a reload in worker threads (chat and                   *)
(* reload_ai_background of src/src/api.py hand query and reload_documents  *)
(* of the one engine to run_in_executor)                                   *)
(***************************************************************************)

ReloadQuestions == {t_hva_er_etcs, t_ok, t_hei}

\* The thread of reload_documents: the statement it is at, the documents
\* load_knowledge_base read and the one it is at.
NoReloader == [pc |-> "idle", all_docs |-> <<>>, i |-> 1]

NoFound ==
  [docs |-> <<>>, confidence |-> "", raised |-> FALSE, touched |-> {}]

\* The thread of query: the statement it is at, the question, its label,
\* its analysis, what find_best_response returned, the result of
\* RailAdviceAI.query, where the reload was when the query began and what
\* failed during the query.
NoAsker ==
  [pc |-> "idle", question |-> <<>>, input_type |-> Label(""),
   intent |-> [categories |-> <<>>, specific_terms |-> {}, length |-> 0],
   f |-> NoFound, result |-> NoResult, raised |-> FALSE,
   started |-> "", failing |-> {}]

\* The collection left as it is, were collection.add left out.
without_entry(collection, texts, metadata, text) == collection

\* collection.add of lines 531-540: the id counts the entries there are,
\* doc_index the texts the engine has.
with_entry(collection, texts, metadata, text) ==
  [collection EXCEPT !.entries =
     Append(@, [id |-> Len(collection.entries) + 1, text |-> text,
                title |-> metadata.title, category |-> metadata.category,
                doc_index |-> Len(texts) - 1])]

\* The engine of the application, initialized over a store of n documents.
Started(n) ==
  initialize_heavy_components(NewEngine("contextual", FALSE), NoLoader,
                              NoCollection, StoreOf(n).d, NoEnv)

ReloadInit ==
  /\ \E n \in {0, 2, Len(Catalogue)} :
       /\ ai = Started(n).ai
       /\ loader = Started(n).loader
       /\ chroma = Started(n).chroma
       /\ disk = StoreOf(n).d
  /\ conversation_history = JsonList(<<>>)
  /\ memory_file = NoFile
  /\ last = NoCall
  /\ calls = NoCalls
  /\ asked = <<>>
  /\ manager = EmptyManager
  /\ book = <<>>
  /\ ranking = NoRanking
  /\ workers = [r |-> NoReloader, q |-> NoAsker]
  /\ app_state = NoAppState

ReloaderFrame ==
  UNCHANGED <<app_state, loader, disk, conversation_history, memory_file, last, calls,
              asked, manager, book, ranking>>

\* line 489: ensure_initialized of an initialized engine
BeginReload ==
  /\ workers.r.pc = "idle"
  /\ ai.initialized
  /\ workers' = [workers EXCEPT !.r.pc = "delete"]
  /\ UNCHANGED <<ai, chroma>>
  /\ ReloaderFrame

\* line 494: self.client.delete_collection("railadvice")
DeleteCollection ==
  /\ workers.r.pc = "delete"
  /\ chroma' = [chroma EXCEPT !.exists = FALSE, !.entries = <<>>]
  /\ workers' = [workers EXCEPT !.r.pc = "create"]
  /\ UNCHANGED ai
  /\ ReloaderFrame

\* line 495: self.collection = self.client.create_collection("railadvice")
CreateCollection ==
  /\ workers.r.pc = "create"
  /\ chroma' = [exists |-> TRUE, gen |-> chroma.gen + 1, entries |-> <<>>]
  /\ ai' = [ai EXCEPT !.collection = chroma.gen + 1]
  /\ workers' = [workers EXCEPT !.r.pc = "clear_text"]
  /\ ReloaderFrame

\* lines 498 and 456: self.documents_text = []
ClearText ==
  /\ workers.r.pc \in {"clear_text", "load_clear_text"}
  /\ ai' = [ai EXCEPT !.documents_text = <<>>]
  /\ workers' = [workers EXCEPT !.r.pc =
                   IF @ = "clear_text" THEN "clear_metadata"
                   ELSE "load_clear_metadata"]
  /\ UNCHANGED chroma
  /\ ReloaderFrame

\* lines 499 and 457: self.documents_metadata = []
ClearMetadata ==
  /\ workers.r.pc \in {"clear_metadata", "load_clear_metadata"}
  /\ ai' = [ai EXCEPT !.documents_metadata = <<>>]
  /\ workers' = [workers EXCEPT !.r.pc =
                   IF @ = "clear_metadata" THEN "load" ELSE "doc"]
  /\ UNCHANGED chroma
  /\ ReloaderFrame

\* lines 442-451: load_knowledge_base reads the documents of the engine's
\* manager and returns when there are none.
LoadAll ==
  /\ workers.r.pc = "load"
  /\ LET all_docs == IF ai.doc_manager.loaded
                     THEN load_all_documents(ai.doc_manager.m, disk)
                     ELSE <<>>
     IN  workers' = [workers EXCEPT
                       !.r.all_docs = all_docs,
                       !.r.i = 1,
                       !.r.pc = IF all_docs = <<>> THEN "done"
                                ELSE "load_clear_text"]
  /\ UNCHANGED <<ai, chroma>>
  /\ ReloaderFrame

\* lines 459-463 and 515-520: the next document; one without content is
\* passed over, another is embedded.
NextDocument ==
  LET w == workers.r
  IN  /\ w.pc = "doc"
      /\ workers' =
           IF w.i > Len(w.all_docs) THEN [workers EXCEPT !.r.pc = "done"]
           ELSE IF Strip(w.all_docs[w.i].content) = <<>>
           THEN [workers EXCEPT !.r.i = @ + 1]
           ELSE [workers EXCEPT !.r.pc = "append_text"]
      /\ UNCHANGED <<ai, chroma>>
      /\ ReloaderFrame

\* line 523: self.documents_text.append(text)
AppendText ==
  LET w == workers.r
  IN  /\ w.pc = "append_text"
      /\ ai' = [ai EXCEPT !.documents_text = Append(@, w.all_docs[w.i].content)]
      /\ workers' = [workers EXCEPT !.r.pc = "append_metadata"]
      /\ UNCHANGED chroma
      /\ ReloaderFrame

MetadataOf(doc) ==
  [type |-> doc.type, category |-> doc.category, title |-> doc.title,
   tags |-> doc.tags, doc_id |-> doc.id]

\* line 524: self.documents_metadata.append(metadata)
AppendMetadata ==
  LET w == workers.r
  IN  /\ w.pc = "append_metadata"
      /\ ai' = [ai EXCEPT !.documents_metadata =
                            Append(@, MetadataOf(w.all_docs[w.i]))]
      /\ workers' = [workers EXCEPT !.r.pc = "add"]
      /\ UNCHANGED chroma
      /\ ReloaderFrame

\* lines 526-540: the entry goes into the collection
AddEntry ==
  LET w == workers.r
  IN  /\ w.pc = "add"
      /\ chroma' = IF HandleValid(ai, chroma)
                   THEN with_entry(chroma, ai.documents_text,
                                   MetadataOf(w.all_docs[w.i]),
                                   w.all_docs[w.i].content)
                   ELSE chroma
      /\ workers' = [workers EXCEPT !.r.pc = "doc", !.r.i = @ + 1]
      /\ UNCHANGED ai
      /\ ReloaderFrame

AskerFrame ==
  UNCHANGED <<app_state, ai, loader, chroma, disk, conversation_history, memory_file,
              last, calls, asked, manager, book, ranking>>

\* lines 667-729: the input is classified; a greeting, an identity or a help
\* request is answered at once, an input that is no single word and finds
\* no documents as well.
BeginQuery(text) ==
  LET input_type == classify_for(ai.variant, text)
      direct == query_classified(ai, loader, chroma, disk, text, input_type,
                                 NoEnv).result
      begun == [workers.q EXCEPT !.question = text,
                                 !.input_type = input_type,
                                 !.started = workers.r.pc]
  IN  /\ workers.q.pc = "idle"
      /\ ai.initialized
      /\ workers' =
           [workers EXCEPT !.q =
              IF \/ input_type.kind \in {"greeting", "identity", "help"}
                 \/ ai.documents_text = <<>> /\ ~InSingleList(input_type)
              THEN [begun EXCEPT !.result = direct, !.pc = "remember"]
              ELSE [begun EXCEPT !.pc = "intent"]]
      /\ AskerFrame

\* line 732: extract_keywords_and_intent over the metadata there is
AnalyseIntent ==
  /\ workers.q.pc = "intent"
  /\ workers' = [workers EXCEPT
                   !.q.intent =
                      extract_keywords_and_intent(ai, workers.q.question),
                   !.q.pc = "check"]
  /\ AskerFrame

\* lines 602-606: find_best_response looks at documents_text
CheckDocuments ==
  /\ workers.q.pc = "check"
  /\ workers' =
       IF ai.documents_text = <<>>
       THEN [workers EXCEPT
               !.q.f = [NoFound EXCEPT !.confidence = "No Documents"],
               !.q.pc = "generate"]
       ELSE [workers EXCEPT !.q.pc = "search"]
  /\ AskerFrame

SearchFaults == ComponentFaults({"encode", "index_query"})

\* lines 608-663: the question is embedded and ranked against the
\* collection the engine's handle stands for at that moment.
SearchCollection ==
  LET w == workers.q
  IN  /\ w.pc = "search"
      /\ \E failing \in FaultSets(SearchFaults),
            dist \in [1..Len(chroma.entries) -> Distances] :
           \E f \in {find_best_ready(
                       [ai |-> ai, loader |-> loader, chroma |-> chroma,
                        raised |-> FALSE],
                       w.question, w.intent,
                       Env(failing, dist, "unchanged"))} :
             /\ failing # {} => dist = Nominal(Len(chroma.entries))
             /\ workers' = [workers EXCEPT
                              !.q.f = [docs |-> f.docs,
                                       confidence |-> f.confidence,
                                       raised |-> f.raised,
                                       touched |-> f.touched],
                              !.q.failing = failing,
                              !.q.pc = "generate"]
      /\ AskerFrame

GenerateFaults ==
  ComponentFaults({"generator", "single_word_encode", "single_word_query"})

\* lines 736-758: the answer is generated from the documents found and the
\* engine as it is by then; what is raised on the way gives "Error".
GenerateAnswer ==
  LET w == workers.q
  IN  /\ w.pc = "generate"
      /\ \E failing \in FaultSets(GenerateFaults),
            dist \in [1..Len(chroma.entries) -> Distances] :
           \E r \in {query_retrieved(
                       w.f @@ [st |-> [ai |-> ai, loader |-> loader,
                                       chroma |-> chroma]],
                       w.question, w.input_type, w.intent, {},
                       Env(failing, dist, "unchanged"))} :
             /\ (failing # {} \/ w.input_type.kind # "single_word")
                  => dist = Nominal(Len(chroma.entries))
             /\ workers' = [workers EXCEPT
                              !.q.result = r.result,
                              !.q.raised = r.raised,
                              !.q.failing = @ \cup failing,
                              !.q.pc = "remember"]
      /\ AskerFrame

\* lines 799-808: the turn goes into the log and the log into its file
RememberTurn ==
  LET w == workers.q
      m == remember([result |-> w.result, raised |-> w.raised,
                     st |-> [ai |-> ai, loader |-> loader, chroma |-> chroma],
                     touched |-> w.f.touched],
                    conversation_history, memory_file, w.question, NoEnv)
  IN  /\ w.pc = "remember"
      /\ conversation_history' = m.history
      /\ memory_file' = m.file
      /\ last' = [op |-> "query", question |-> w.question,
                  result |-> m.result, raised |-> m.raised,
                  touched |-> m.touched, before |-> NoEngine,
                  failing |-> w.failing, docs |-> w.f.docs]
      /\ asked' = Append(asked, [user |-> w.question, ai |-> m.result.answer])
      /\ workers' = [workers EXCEPT !.q.pc = "done"]
      /\ UNCHANGED <<app_state, ai, loader, chroma, disk, calls, manager, book, ranking>>

ReloadNext ==
  \/ BeginReload
  \/ DeleteCollection
  \/ CreateCollection
  \/ ClearText
  \/ ClearMetadata
  \/ LoadAll
  \/ NextDocument
  \/ AppendText
  \/ AppendMetadata
  \/ AddEntry
  \/ \E text \in ReloadQuestions : BeginQuery(text)
  \/ AnalyseIntent
  \/ CheckDocuments
  \/ SearchCollection
  \/ GenerateAnswer
  \/ RememberTurn

SpecReload == ReloadInit /\ [][ReloadNext]_vars

\* The texts of the documents the engine's manager has, those without
\* content left out, in the order of the index.
ManagedTexts ==
  LET all_docs == load_all_documents(ai.doc_manager.m, disk)
      HasContent(doc) == Strip(doc.content) # <<>>
      kept == SelectSeq(all_docs, HasContent)
  IN  [i \in 1..Len(kept) |-> kept[i].content]

\* The question goes to the retrieval.
Retrieving ==
  workers.q.input_type.kind \notin {"greeting", "identity", "help"}

\* C24: a chat query that runs while reload_documents runs on the same
\* engine never raises, and its result is well formed: documents drawn from
\* the index, or no documents with the confidence "No Documents", "Error"
\* or "Low"; a query that begins after the reload has completed sees the
\* index rebuilt in full.
C24_QueryDuringReload ==
  /\ ~last.raised /\ ~workers.q.raised
  /\ (workers.q.pc = "done" /\ Retrieving) =>
       /\ last.result.sources \in {0, Len(last.docs)}
       /\ \A k \in 1..Len(last.docs) : last.docs[k] \in Range(ManagedTexts)
       /\ last.result.sources = 0 =>
            last.result.confidence \in {"No Documents", "Error", "Low"}
  /\ workers.r.pc = "done" =>
       /\ ai.documents_text = ManagedTexts
       /\ Len(chroma.entries) = Len(ManagedTexts)
       /\ \A i \in 1..Len(chroma.entries) :
            chroma.entries[i].text = ManagedTexts[i]
       /\ HandleValid(ai, chroma)
  /\ (/\ workers.q.pc = "done" /\ workers.q.started = "done"
      /\ workers.q.input_type.kind \in {"question", "statement"}
      /\ workers.q.failing = {}) =>
       last.result.sources = (IF Len(ManagedTexts) < TopDocs THEN Len(ManagedTexts)
                         ELSE TopDocs)

\* A question asked between delete_collection and create_collection, whose
\* search fails on the deleted collection and is answered with "Error".
C24_Witness ==
  /\ workers.q.pc = "done"
  /\ workers.r.pc # "done"
  /\ workers.q.started = "create"
  /\ workers.q.failing = {}
  /\ last.question = t_hva_er_etcs
  /\ last.result.confidence = "Error"
  /\ last.docs = <<>>

\* A question asked after the reload, answered from both documents.
AnsweredAfterReload ==
  /\ workers.q.pc = "done"
  /\ workers.q.started = "done"
  /\ Len(last.docs) = TopDocs

(***************************************************************************)
(* The initialization of the engine by the application (src/src/api.py)    *)
(*                                                                         *)
(* The coroutines run on one event loop: a task runs from one await to the *)
(* next without another task in between.  workers.t holds the tasks of     *)
(* initialize_ai_engine, workers.w the calls of ensure_ai_ready, and       *)
(* workers.running the task that is between two statements with no await  *)
(* between them (0 when the loop can switch).                              *)
(***************************************************************************)

\* How many tasks of initialize_ai_engine one run creates
MaxTasks == 3

\* How many calls of ensure_ai_ready one run makes
MaxWaiters == 2

\* How many sleeps of half a second fit into the timeout
MaxSleeps == 2

\* A task of initialize_ai_engine as asyncio.create_task leaves it
NewTask == [pc |-> "new", built |-> FALSE]

\* A call of ensure_ai_ready: what it returned, whether it created a task,
\* how often it slept, whether it gave up on the timeout, the flags it
\* found and the failed initializations before it began and when it
\* returned.
Waiter(app, failed) ==
  [pc |-> "waiting", result |-> FALSE, created |-> FALSE, slept |-> 0,
   timed_out |-> FALSE, found |-> [ai_loading |-> app.ai_loading,
                                   ai_loaded |-> app.ai_loaded],
   failed_before |-> failed, failed_after |-> failed]

\* line 63, were the test never true
NeverStarted(app) == FALSE

\* line 63: if app_state.ai_loaded or app_state.ai_loading
AlreadyStarted(app) == app.ai_loaded \/ app.ai_loading

\* lines 183-190
get_ai_status(app) ==
  IF app.ai_loaded /\ app.ai_engine THEN "ready"
  ELSE IF app.ai_loading THEN "loading"
  ELSE IF ~app.ai_engine THEN "not_loaded"
  ELSE "error"

\* lifespan has created the first task (line 102); nothing has run yet.
StartupInit ==
  /\ Idle
  /\ chroma = NoCollection
  /\ disk = StoreOf(2).d
  /\ memory_file = NoFile
  /\ manager = EmptyManager
  /\ book = <<>>
  /\ ranking = NoRanking
  /\ workers = [t |-> <<NewTask>>, w |-> <<>>, running |-> 0]
  /\ app_state = NoAppState

EngineFrame ==
  UNCHANGED <<ai, loader, chroma, disk, conversation_history, memory_file,
              last, asked, manager, book, ranking>>

\* lines 62-75: the task takes the lock when it is free; it returns when the
\* engine is loaded or loading, and otherwise sets ai_loading and hands the
\* construction to a worker thread.
EnterInit(u) ==
  /\ workers.running = 0
  /\ workers.t[u].pc = "new"
  /\ app_state.initialization_lock = 0
  /\ IF AlreadyStarted(app_state)
     THEN /\ workers' = [workers EXCEPT !.t[u].pc = "returned"]
          /\ UNCHANGED app_state
     ELSE /\ workers' = [workers EXCEPT !.t[u].pc = "building"]
          /\ app_state' = [app_state EXCEPT !.ai_loading = TRUE,
                                            !.initialization_lock = u]
  /\ UNCHANGED calls
  /\ EngineFrame

\* line 74: create_ai_engine(lazy=False, contextual=True) in the worker
\* thread; the constructor initializes the heavy components and loads the
\* memory, or raises.
BuildEngine(u) ==
  /\ workers.t[u].pc = "building"
  /\ \E env \in InitEnvs :
       \E i \in {initialize_heavy_components(NewEngine("contextual", FALSE),
                                             loader, chroma, disk, env)} :
         /\ ai' = IF i.raised THEN ai ELSE i.ai
         /\ loader' = i.loader
         /\ chroma' = i.chroma
         /\ conversation_history' =
              IF i.raised THEN conversation_history
              ELSE load_memory(memory_file)
         /\ workers' = [workers EXCEPT !.t[u].pc = "built",
                                       !.t[u].built = ~i.raised]
  /\ UNCHANGED <<app_state, calls, disk, memory_file, last, asked, manager,
                 book, ranking>>

\* lines 73-84: the await returns and the engine is assigned and ai_loaded
\* set, or the exception is caught and ai_engine set to None.
ResumeInit(u) ==
  /\ workers.running = 0
  /\ workers.t[u].pc = "built"
  /\ app_state' = IF workers.t[u].built
                  THEN [app_state EXCEPT !.ai_engine = TRUE,
                                         !.ai_loaded = TRUE]
                  ELSE [app_state EXCEPT !.ai_engine = FALSE]
  /\ calls' = IF workers.t[u].built THEN calls
              ELSE [calls EXCEPT !.faults = @ + 1]
  /\ workers' = [workers EXCEPT !.t[u].pc = "finally", !.running = u]
  /\ EngineFrame

\* lines 86-89: finally ai_loading = False; the lock is released.
FinishInit(u) ==
  /\ workers.running = u
  /\ workers.t[u].pc = "finally"
  /\ app_state' = [app_state EXCEPT !.ai_loading = FALSE,
                                    !.initialization_lock = 0]
  /\ workers' = [workers EXCEPT !.t[u].pc = "returned", !.running = 0]
  /\ UNCHANGED calls
  /\ EngineFrame

\* lines 421-433: POST /api/initialize-ai creates a task unless the engine
\* is ready or loading.
ForceInitialize ==
  /\ workers.running = 0
  /\ Len(workers.t) < MaxTasks
  /\ get_ai_status(app_state) \notin {"ready", "loading"}
  /\ workers' = [workers EXCEPT !.t = Append(@, NewTask)]
  /\ UNCHANGED <<app_state, calls>>
  /\ EngineFrame

\* The loop of lines 203-208 from its test: return ai_loaded when nothing
\* is loading, give up when the timeout has passed, and sleep otherwise.
Wait(w) ==
  IF ~app_state.ai_loading
  THEN [w EXCEPT !.pc = "returned", !.result = app_state.ai_loaded,
                 !.failed_after = calls.faults]
  ELSE IF w.slept > MaxSleeps
  THEN [w EXCEPT !.pc = "returned", !.result = FALSE, !.timed_out = TRUE,
                 !.failed_after = calls.faults]
  ELSE [w EXCEPT !.pc = "sleeping"]

\* lines 192-206: ensure_ai_ready up to its first sleep or its return
EnsureReady ==
  /\ workers.running = 0
  /\ Len(workers.w) < MaxWaiters
  /\ ~app_state.ai_loading => Len(workers.t) < MaxTasks
  /\ LET w == Waiter(app_state, calls.faults)
     IN  workers' =
           IF app_state.ai_loaded
           THEN [workers EXCEPT !.w = Append(@,
                   [w EXCEPT !.pc = "returned", !.result = TRUE])]
           ELSE IF ~app_state.ai_loading
           THEN [workers EXCEPT
                   !.t = Append(@, NewTask),
                   !.w = Append(@, Wait([w EXCEPT !.created = TRUE]))]
           ELSE [workers EXCEPT !.w = Append(@, Wait(w))]
  /\ UNCHANGED <<app_state, calls>>
  /\ EngineFrame

\* line 206: asyncio.sleep(0.5) is over and the loop tests again
WakeUp(k) ==
  /\ workers.running = 0
  /\ workers.w[k].pc = "sleeping"
  /\ workers' = [workers EXCEPT
                   !.w[k] = Wait([workers.w[k] EXCEPT !.slept = @ + 1])]
  /\ UNCHANGED <<app_state, calls>>
  /\ EngineFrame

StartupNext ==
  \/ \E u \in 1..Len(workers.t) :
       EnterInit(u) \/ BuildEngine(u) \/ ResumeInit(u) \/ FinishInit(u)
  \/ ForceInitialize
  \/ EnsureReady
  \/ \E k \in 1..Len(workers.w) : WakeUp(k)

SpecStartup == StartupInit /\ [][StartupNext]_vars

\* C25: ensure_ai_ready called while the engine is neither loaded nor
\* loading starts the initialization and waits for it: it returns False
\* only if an initialization failed while it waited or the timeout passed
\* while the engine was still loading.
C25_EnsureReadyWaits ==
  \A k \in 1..Len(workers.w) :
    LET w == workers.w[k]
    IN  (/\ w.pc = "returned"
         /\ ~w.found.ai_loading /\ ~w.found.ai_loaded) =>
          /\ w.created
          /\ ~w.result => (w.timed_out \/ w.failed_after > w.failed_before)

\* ensure_ai_ready as it is: called while the engine is neither loaded nor
\* loading it creates the task and returns False without a sleep; called
\* while the engine is loading it returns what ai_loaded is once nothing is
\* loading, or False on the timeout.
EnsureReadyAsWritten ==
  \A k \in 1..Len(workers.w) :
    LET w == workers.w[k]
    IN  w.pc = "returned" =>
          /\ (~w.found.ai_loading /\ ~w.found.ai_loaded) =>
               (w.created /\ ~w.result /\ w.slept = 0 /\ ~w.timed_out)
          /\ w.found.ai_loaded => w.result
          /\ w.timed_out => (~w.result /\ w.slept > MaxSleeps)

Building == {u \in 1..Len(workers.t) : workers.t[u].pc \in {"building", "built"}}

Attempting ==
  {u \in 1..Len(workers.t) :
     workers.t[u].pc \in {"building", "built", "finally"}}

FlagsConsistent ==
  /\ Cardinality(Building) <= 1
  /\ workers.running = 0 => ~(app_state.ai_loading /\ app_state.ai_loaded)
  /\ Attempting = {} => ~app_state.ai_loading
  /\ app_state.ai_loaded => app_state.ai_engine

LoadedStays == app_state.ai_loaded => app_state.ai_loaded'

\* C28: whatever the interleaving of the tasks of initialize_ai_engine, at
\* most one construction is in flight, ai_loading and ai_loaded are never
\* both true where the event loop can switch tasks, ai_loading is false
\* when no attempt is under way, ai_loaded implies that ai_engine is set,
\* and ai_loaded once true stays true.
C28_InitializedOnce == []FlagsConsistent /\ [][LoadedStays]_vars

\* A second task found the engine loaded and returned under the lock.
C28_Witness ==
  /\ app_state.ai_loaded /\ ~app_state.ai_loading
  /\ \E u, v \in 1..Len(workers.t) :
       /\ u # v
       /\ workers.t[u].pc = "returned" /\ workers.t[u].built
       /\ workers.t[v].pc = "returned" /\ ~workers.t[v].built
  /\ calls.faults = 0

(***************************************************************************)
(* search_documents of the document manager                                *)
(***************************************************************************)

\* The filters search_documents is called with: "" and <<>> stand for an
\* argument left out; "manual", "kostnad" and the tag "etcs" are values no
\* document of the shelf has.
SearchTypes == {"", "general", "technical", "manual"}

SearchCategories == {"", "general", "teknologi", "kostnad"}

SearchTags == {<<>>, <<tag_signal>>, <<tag_etcs>>, <<tag_etcs, tag_signal>>}

\* The update that moves a document to another category and tags it
Retag ==
  [NoKwargs EXCEPT !.keys = {"title", "category", "tags"},
                   !.title = title_signal, !.category = "general",
                   !.tags = <<tag_signal>>]

SearchDocs(doc_type, category, tags) ==
  /\ last' = [op |-> "search_documents", doc_type |-> doc_type,
              category |-> category, tags |-> tags,
              ids |-> search_documents(manager, disk, doc_type, category,
                                       tags)]
  /\ UNCHANGED <<app_state, workers, ai, loader, chroma, disk,
                 conversation_history, memory_file, calls, asked, manager,
                 book, ranking>>

SearchNext ==
  \/ \E i \in 1..Len(Shelf) : AddDoc(Shelf[i])
  \/ \E doc_id \in ShelfIds : UpdateDoc(doc_id, Retag)
  \/ \E doc_id \in ShelfIds : RemoveDoc(doc_id)
  \/ \E doc_type \in SearchTypes, category \in SearchCategories,
        tags \in SearchTags : SearchDocs(doc_type, category, tags)

SpecSearch == DocsInit /\ [][SearchNext]_vars

\* The documents of the index whose current type, category and tags satisfy
\* the filter; a filter left out is satisfied by every document.
Satisfying(doc_type, category, tags) ==
  {manager.index[i].key : i \in
     {j \in 1..Len(manager.index) :
        /\ doc_type # "" => manager.index[j].type = doc_type
        /\ category # "" => manager.index[j].category = category
        /\ tags # <<>> =>
             Range(manager.index[j].tags) \cap Range(tags) # {}}}

\* C26: search_documents with a doc_type, category or tags filter returns
\* only documents whose current type, category and tags satisfy it, and
\* nothing when the filter names a value no document has.
C26_FilterIsApplied ==
  last.op = "search_documents" =>
    last.ids = Satisfying(last.doc_type, last.category, last.tags)

\* The filters as lines 182-193 apply them: a doc_type or category that is
\* no key of the search index is not applied at all.
FilterAsWritten ==
  last.op = "search_documents" =>
    last.ids =
      Satisfying(IF BucketPos(manager.search_index.by_type, last.doc_type) = 0
                 THEN "" ELSE last.doc_type,
                 IF BucketPos(manager.search_index.by_category,
                              last.category) = 0
                 THEN "" ELSE last.category,
                 last.tags)

(***************************************************************************)
(* Two chat queries in worker threads on the one engine with memory        *)
(* (chat of src/src/api.py hands ContextualRailAdviceAI.query to           *)
(* run_in_executor)                                                        *)
(***************************************************************************)

\* The questions of the two threads
Asked == <<t_hei, t_ok>>

\* A log of n earlier turns
RECURSIVE Earlier(_)
Earlier(n) ==
  IF n = 0 THEN <<>>
  ELSE Append(Earlier(n - 1),
              [user |-> t_hade, ai |-> Ans("loading", 0, "", <<>>)])

\* A thread at the start of query(question): the statement it is at, the
\* answer of super().query, the slice it has taken of the log, what it has
\* serialized for the file, and whether the file was left alone by the
\* other thread since it opened it.
Asker(question) ==
  [pc |-> "query", question |-> question, answer |-> Ans("", 0, "", <<>>),
   sliced |-> <<>>, buffer |-> NoFile, clean |-> TRUE]

TurnsInit ==
  /\ ai = NewEngine("contextual", TRUE)
  /\ loader = NoLoader
  /\ chroma = NoCollection
  /\ disk = StoreOf(0).d
  /\ \E n \in {0, MemoryCap - 1, MemoryCap} :
       /\ conversation_history = JsonList(Earlier(n))
       /\ memory_file = json_dump(JsonList(Earlier(n)))
       /\ asked = Earlier(n)
  /\ last = NoCall
  /\ calls = NoCalls
  /\ manager = EmptyManager
  /\ book = <<>>
  /\ ranking = NoRanking
  /\ workers = [lock |-> 0, t |-> <<Asker(Asked[1]), Asker(Asked[2])>>]
  /\ app_state = NoAppState

TurnsFrame ==
  UNCHANGED <<app_state, ai, loader, chroma, disk, last, calls, asked,
              manager, book, ranking>>

\* The other thread has the file open when this one opens or writes it.
Disturb(u) ==
  [v \in 1..Len(workers.t) |->
     IF v # u /\ workers.t[v].pc \in {"dump", "close"}
     THEN [workers.t[v] EXCEPT !.clean = FALSE]
     ELSE workers.t[v]]

\* line 800: result = super().query(question); the engine is not yet
\* initialized and answers from a template or with "Loading".
AskTurn(u) ==
  /\ workers.t[u].pc = "query"
  /\ workers' = [workers EXCEPT
                   !.t[u].answer =
                      query(ai, loader, chroma, disk, workers.t[u].question,
                            NoEnv).result.answer,
                   !.t[u].pc = "append"]
  /\ UNCHANGED <<conversation_history, memory_file>>
  /\ TurnsFrame

\* line 803: self.conversation_history.append(...)
AppendTurn(u) ==
  /\ workers.t[u].pc = "append"
  /\ conversation_history' =
       JsonList(Append(conversation_history.items,
                       [user |-> workers.t[u].question,
                        ai |-> workers.t[u].answer]))
  /\ workers' = [workers EXCEPT !.t[u].pc = "test"]
  /\ UNCHANGED memory_file
  /\ TurnsFrame

\* line 804: if len(self.conversation_history) > 20
TestLength(u) ==
  /\ workers.t[u].pc = "test"
  /\ workers' = [workers EXCEPT !.t[u].pc =
                   IF Len(conversation_history.items) > MemoryCap
                   THEN "slice" ELSE "open"]
  /\ UNCHANGED <<conversation_history, memory_file>>
  /\ TurnsFrame

\* line 805, right-hand side: self.conversation_history[-20:], a new list
TakeSlice(u) ==
  /\ workers.t[u].pc = "slice"
  /\ workers' = [workers EXCEPT
                   !.t[u].sliced = LastN(conversation_history.items, MemoryCap),
                   !.t[u].pc = "assign"]
  /\ UNCHANGED <<conversation_history, memory_file>>
  /\ TurnsFrame

\* line 805, the assignment: the log is now the new list
AssignSlice(u) ==
  /\ workers.t[u].pc = "assign"
  /\ conversation_history' = JsonList(workers.t[u].sliced)
  /\ workers' = [workers EXCEPT !.t[u].pc = "open"]
  /\ UNCHANGED memory_file
  /\ TurnsFrame

\* line 782: open(self.memory_file, "w") empties the file
OpenFile(u) ==
  /\ workers.t[u].pc = "open"
  /\ memory_file' = Garbage
  /\ workers' = [workers EXCEPT
                   !.t = [Disturb(u) EXCEPT ![u].pc = "dump",
                                            ![u].clean = TRUE]]
  /\ UNCHANGED conversation_history
  /\ TurnsFrame

\* line 783: json.dump serializes the log as it is at that moment
DumpLog(u) ==
  /\ workers.t[u].pc = "dump"
  /\ workers' = [workers EXCEPT
                   !.t[u].buffer = json_dump(conversation_history),
                   !.t[u].pc = "close"]
  /\ UNCHANGED <<conversation_history, memory_file>>
  /\ TurnsFrame

\* The end of the with block: what was serialized reaches the file; when
\* the other thread has opened or written the file in between, the file
\* holds this text or a mixture of the two that is no JSON.
CloseFile(u) ==
  /\ workers.t[u].pc = "close"
  /\ memory_file' \in IF workers.t[u].clean THEN {workers.t[u].buffer}
                      ELSE {workers.t[u].buffer, Garbage}
  /\ workers' = [workers EXCEPT
                   !.t = [Disturb(u) EXCEPT ![u].pc = "returned"]]
  /\ UNCHANGED conversation_history
  /\ TurnsFrame

TurnsNext ==
  \E u \in 1..Len(Asked) :
    \/ AskTurn(u)
    \/ AppendTurn(u)
    \/ TestLength(u)
    \/ TakeSlice(u)
    \/ AssignSlice(u)
    \/ OpenFile(u)
    \/ DumpLog(u)
    \/ CloseFile(u)

SpecTurns == TurnsInit /\ [][TurnsNext]_vars

BothReturned == \A u \in 1..Len(workers.t) : workers.t[u].pc = "returned"

TurnOf(u) == [user |-> workers.t[u].question, ai |-> workers.t[u].answer]

\* C30: when two queries of the engine with memory run at the same time,
\* no turn is lost: once both have returned, both turns are among the last
\* entries of the log and of the file, also when the log was at its cap.
C30_NoTurnLost ==
  BothReturned =>
    /\ \A u \in 1..Len(workers.t) :
         TurnOf(u) \in Range(LastN(conversation_history.items, 2))
    /\ load_memory(memory_file) = conversation_history

\* Below the cap the log in memory keeps both turns, whatever the
\* interleaving: both appends go to the same list.
BelowCapBothKept ==
  (BothReturned /\ Len(conversation_history.items) < MemoryCap) =>
    \A u \in 1..Len(workers.t) :
      TurnOf(u) \in Range(LastN(conversation_history.items, 2))

\* At the cap a turn is missing from the log in memory.
TurnLostInMemory ==
  /\ BothReturned
  /\ \E u \in 1..Len(workers.t) : TurnOf(u) \notin Range(conversation_history.items)
  /\ Len(conversation_history.items) = MemoryCap
====
